---- MODULE Spec2Model ----
(***************************************************************************)
(* Model of the Educator Tools script core: the classroom limitations      *)
(* inventory scan job and its single-flight guard, the feedback prompt     *)
(* player <-> NPC link registry with its orphan sweep, the student         *)
(* nickname prompt, and the scene navigation engine.                        *)
(*                                                                         *)
(* Each feature has its own specification over the shared variables; a     *)
(* specification leaves the other features' variables at their initial     *)
(* values.                                                                  *)
(***************************************************************************)
EXTENDS Integers, Sequences, FiniteSets, TLC

VARIABLES
    \* ---- classroom limitations mechanic ----
    scanInProgress,   \* ClassroomLimitationsMechanic.scanInProgress
    jobs,             \* generators handed to system.runJob and not yet ended
    ended,            \* how the generator that ended last ended
    online,           \* ids of the players world.getPlayers() returns
    inv,              \* per player, the slots that hold a restricted item
    \* ---- feedback prompt mechanic ----
    activeEntitiesKeyToValue,   \* Map playerId -> entityId
    activeEntitiesValueToKey,   \* Map entityId -> playerId
    lastOp,                     \* the registry operation applied last and the registry before it
    npcs,                       \* per spawned prompt NPC: owner, world state
    pendingPromptPlayers,       \* Set of player ids
    promptOpenedPlayers,        \* Set of player ids
    dialogueTimers,             \* NPCs with a pending dialogue-open timeout
    removalTimers,              \* NPCs with a pending removal timeout
    shown,                      \* players whose dialogue opened, event in flight
    \* ---- student nickname prompt ----
    playersToPrompt,   \* PlayerNicknameMechanic.playersToPrompt: Map id -> Vector3
    viewDirection,     \* per player, what player.getViewDirection() returns
    forms,             \* per player, the scene forms the host displays to them
    userBusy,          \* players whose student form resolved UserBusy, not yet handled
    nicknames,         \* players with a stored nickname
    settings,          \* PlayerNicknameSettings: nicknamesEnabled, promptOnJoin
    \* ---- scene navigation ----
    history,           \* SceneContext history: previously current scene ids
    currentScene,      \* the scene id current for the Context, "none" when idle
    lastNav,           \* the navigation call made last and the Context before it
    logged,            \* whether the navigation call made last logged an error
    subjectTeam,       \* whether the Context holds a subject team
    \* ---- classroom limitations: entity scan ----
    entities,          \* the entities of the restrictable type in the world
    entityRestricted,  \* whether the restriction on that type is enabled
    checkedSinceYield, \* checkEntity calls of the job resume made last
    \* ---- host scheduler: interval runs ----
    runs,              \* the registered interval runs, by run id
    nextRunId,         \* the id the next system.runInterval call returns
    taskId,            \* TimerMechanic.taskId, 0 for null
    timerInitialized,  \* TimerMechanic.initialize has been called
    timerStopped,      \* TimerMechanic.stop has cleared the timer's run
    loopsStarted,      \* FeedbackPromptMechanic has registered its retry loop
    lastTick,          \* the runs whose callback ran, and threw, in the last tick
    schedOp,           \* the scheduler-facing call made last
    \* ---- timer ----
    timer,             \* the stored timer (CachedStorage "timer")
    timerEntities,     \* the edu_tools:timer entities summoned, by id
    timesUpSent,       \* the times_up message was broadcast for the timer
    now,               \* Date.now(), in ms
    currentTick,       \* system.currentTick
    phase,             \* the observed moment within the tick interval
    reopened,          \* the game was closed and opened again
    closedFor,         \* ms the game was closed for since the last call or tick
    lastEvent,         \* "refused" after a call that met a guard and returned,
                       \* "reopenTick" after the first tick since the game
                       \* was opened again, "none" otherwise
    \* ---- environment ----
    worldTime,         \* world.getTimeOfDay()
    dayTimeTarget,     \* storage entry "day_time_target"
    timeTransitionSpeed, \* storage entry "time_transition_speed"
    realTimeDaylight,  \* storage entry "real_time_daylight"
    transitionTicks,   \* ticks run since the target was stored
    \* ---- feedback prompt gates ----
    date,              \* new Date(), in seconds
    promptCandidates,  \* FeedbackPromptService.playersToPrompt
    feedbackProvided,  \* storage entry "feedback_provided_players"
    monitorRan,        \* the step taken last was a run of the activity monitor
    \* ---- feedback prompt: retry loop over several players ----
    retryFirings,      \* the firings of the retry callback so far, modulo 2
    tried              \* the players the firing made last called tryPromptPlayer for

scanVars == <<scanInProgress, jobs, ended, online, inv>>

linkVars == <<activeEntitiesKeyToValue, activeEntitiesValueToKey, lastOp>>

promptVars == <<npcs, pendingPromptPlayers, promptOpenedPlayers,
                dialogueTimers, removalTimers, shown>>

nickVars == <<playersToPrompt, viewDirection, forms, userBusy, nicknames,
              settings>>

navVars == <<history, currentScene, lastNav, logged>>

entryVars == <<subjectTeam>>

\* The variables of the features specified after the scene navigation.
chunkVars == <<entities, entityRestricted, checkedSinceYield>>

schedVars == <<runs, nextRunId, taskId, timerInitialized, timerStopped,
               loopsStarted, lastTick, schedOp>>

timerVars == <<timer, timerEntities, timesUpSent, now, currentTick, phase,
               reopened, closedFor, lastEvent>>

envVars == <<worldTime, dayTimeTarget, timeTransitionSpeed, realTimeDaylight,
             transitionTicks>>

gateVars == <<date, promptCandidates, feedbackProvided, monitorRan>>

retryVars == <<retryFirings, tried>>

extVars == <<entryVars, chunkVars, schedVars, timerVars, envVars, gateVars, retryVars>>

vars == <<scanVars, linkVars, promptVars, nickVars, navVars, extVars>>

(***************************************************************************)
(* Bounds                                                                  *)
(***************************************************************************)
NumPlayers == 2
NumSlots == 2
MaxJobs == 2
MaxNpcs == 2
NumPromptPlayers == 1
NumEntityIds == 5
NumNickPlayers == 1
MaxHistory == 3
NumWorldEntities == 2
MaxDuration == 1
MaxTimerEntities == 1

Players == 1 .. NumPlayers
Slots == 1 .. NumSlots

\* The members of the teachers team (TeamsService.TEACHERS_TEAM_ID).
Teachers == {1}

(***************************************************************************)
(* Classroom limitations: periodic inventory scan                          *)
(***************************************************************************)

\* ClassroomLimitationsService.isTeacher
isTeacher(p) == p \in Teachers

\* world.getPlayers(): the online players, in id order.
RECURSIVE getPlayers(_)
getPlayers(S) ==
    IF S = {} THEN <<>>
    ELSE LET m == CHOOSE x \in S : \A y \in S : x <= y
         IN  <<m>> \o getPlayers(S \ {m})

\* A generator created by scanGenerator(): the captured players array, the
\* position it is suspended at (pi = 0: not started; otherwise it is
\* suspended at the yield after slot `slot` of players[pi]) and the captured
\* Player handles that have become invalid since they were obtained.
scanGenerator(on) ==
    [kind |-> "inventory", players |-> getPlayers(on), pi |-> 0, slot |-> 0,
     stale |-> {}]

\* The head of the `for (let player of players)` loop from index k on: the
\* index of the first player whose slot loop is entered, 0 when the loop ends.
\* An invalid handle is refreshed by id; the player is skipped when nobody
\* with that id is online, when they are a teacher, or when the container is
\* empty.
RECURSIVE nextScanned(_, _, _)
nextScanned(g, k, on) ==
    IF k > Len(g.players) THEN 0
    ELSE LET p == g.players[k]
         IN  IF \/ (p \in g.stale /\ p \notin on)
                \/ isTeacher(p)
                \/ NumSlots = 0
             THEN nextScanned(g, k + 1, on)
             ELSE k

\* The body of the slot loop for one slot: a restricted item is removed.
scanSlot(i, p, s) == [i EXCEPT ![p] = @ \ {s}]

\* The generator runs from the loop head at index k to its next yield, or
\* to its end, where it clears the guard.
scanFrom(g, k) ==
    LET n == nextScanned(g, k, online)
    IN  IF n = 0
        THEN /\ scanInProgress' = FALSE
             /\ jobs' = Tail(jobs)
             /\ ended' = "returned"
             /\ inv' = inv
        ELSE LET p == g.players[n]
             IN  /\ jobs' = <<[g EXCEPT !.pi = n, !.slot = 1,
                                        !.stale = @ \ {p}]>> \o Tail(jobs)
                 /\ inv' = scanSlot(inv, p, 1)
                 /\ UNCHANGED <<scanInProgress, ended>>

\* system.runJob resumes the generator once: it runs to its next yield,
\* returns, or throws. Container.size and Container.getItem throw when the
\* player that owns the container is no longer valid; the job system drops a
\* generator that throws.
resumeScan ==
    /\ jobs # <<>>
    /\ Head(jobs).kind = "inventory"
    /\ LET g == Head(jobs)
       IN  IF g.pi = 0
           THEN scanFrom(g, 1)
           ELSE LET p == g.players[g.pi]
                IN  IF p \in g.stale
                    THEN /\ jobs' = Tail(jobs)
                         /\ ended' = "threw"
                         /\ UNCHANGED <<scanInProgress, inv>>
                    ELSE IF g.slot < NumSlots
                    THEN /\ jobs' = <<[g EXCEPT !.slot = @ + 1]>> \o Tail(jobs)
                         /\ inv' = scanSlot(inv, p, g.slot + 1)
                         /\ UNCHANGED <<scanInProgress, ended>>
                    ELSE scanFrom(g, g.pi + 1)
    /\ UNCHANGED online

\* launchInventoryScanJob: the guard is set, the players are captured and the
\* generator is handed to system.runJob, which queues it.
launchInventoryScanJob ==
    /\ scanInProgress' = TRUE
    /\ jobs' = Append(jobs, scanGenerator(online))
    /\ UNCHANGED <<ended, online, inv>>

\* launchInventoryScanJob when system.runJob itself throws: the catch block
\* clears the guard and no generator is queued.
launchInventoryScanJobRejected ==
    /\ scanInProgress' = FALSE
    /\ UNCHANGED <<jobs, ended, online, inv>>

\* scheduleInventoryScans with the scanInProgress test left out.
scheduleInventoryScansUnguarded ==
    /\ Len(jobs) < MaxJobs
    /\ (launchInventoryScanJob \/ launchInventoryScanJobRejected)

\* The system.runInterval callback of scheduleInventoryScans.
scheduleInventoryScans ==
    /\ Len(jobs) < MaxJobs
    /\ IF scanInProgress
       THEN UNCHANGED scanVars
       ELSE launchInventoryScanJob \/ launchInventoryScanJobRejected

\* A player leaves: every Player handle captured for them becomes invalid.
PlayerLeaveScan(p) ==
    /\ p \in online
    /\ online' = online \ {p}
    /\ jobs' = [j \in DOMAIN jobs |->
                  IF /\ jobs[j].kind = "inventory"
                     /\ \E k \in DOMAIN jobs[j].players : jobs[j].players[k] = p
                  THEN [jobs[j] EXCEPT !.stale = @ \cup {p}]
                  ELSE jobs[j]]
    /\ UNCHANGED <<scanInProgress, ended, inv>>

\* A player joins (again): a new Player object with the same id.
PlayerJoinScan(p) ==
    /\ p \notin online
    /\ online' = online \cup {p}
    /\ UNCHANGED <<scanInProgress, jobs, ended, inv>>

\* An online student obtains a restricted item in a slot.
AcquireItem(p, s) ==
    /\ p \in online
    /\ ~isTeacher(p)
    /\ s \notin inv[p]
    /\ inv' = [inv EXCEPT ![p] = @ \cup {s}]
    /\ UNCHANGED <<scanInProgress, jobs, ended, online>>

ScanStart ==
    /\ scanInProgress = FALSE
    /\ jobs = <<>>
    /\ ended = "none"
    /\ online = {}
    /\ inv = [p \in Players |-> {}]

ScanNext ==
    \/ scheduleInventoryScans /\ UNCHANGED <<linkVars, promptVars, nickVars, navVars, extVars>>
    \/ resumeScan /\ UNCHANGED <<linkVars, promptVars, nickVars, navVars, extVars>>
    \/ \E p \in Players :
          PlayerLeaveScan(p) /\ UNCHANGED <<linkVars, promptVars, nickVars, navVars, extVars>>
    \/ \E p \in Players :
          PlayerJoinScan(p) /\ UNCHANGED <<linkVars, promptVars, nickVars, navVars, extVars>>
    \/ \E p \in Players, s \in Slots :
          AcquireItem(p, s) /\ UNCHANGED <<linkVars, promptVars, nickVars, navVars, extVars>>


(***************************************************************************)
(* Feedback prompt: the player <-> NPC link registry                       *)
(***************************************************************************)

\* Map.prototype.set and Map.prototype.delete on a map held as a function.
MapSet(m, k, v) == [x \in DOMAIN m \cup {k} |-> IF x = k THEN v ELSE m[x]]
MapDelete(m, k) == [x \in DOMAIN m \ {k} |-> m[x]]
EmptyMap == [x \in {} |-> x]

\* A registry: the two maps of the mechanic.
Registry(f, r) == [fwd |-> f, rev |-> r]

\* setActiveEntity that leaves the reverse entry of the key's old value.
setActiveEntityKeepOldValue(reg, key, value) ==
    LET fwd1 == IF value \in DOMAIN reg.rev /\ reg.rev[value] # key
                THEN MapDelete(reg.fwd, reg.rev[value])
                ELSE reg.fwd
    IN  Registry(MapSet(fwd1, key, value), MapSet(reg.rev, value, key))

\* deleteActiveEntityByKey that deletes from the forward map only.
deleteActiveEntityByKeyForwardOnly(reg, key) ==
    Registry(MapDelete(reg.fwd, key), reg.rev)

\* setActiveEntity that does not evict the stale entries.
setActiveEntityNoEvict(reg, key, value) ==
    Registry(MapSet(reg.fwd, key, value), MapSet(reg.rev, value, key))

\* FeedbackPromptMechanic.setActiveEntity
setActiveEntity(reg, key, value) ==
    LET rev1 == IF key \in DOMAIN reg.fwd /\ reg.fwd[key] # value
                THEN MapDelete(reg.rev, reg.fwd[key])
                ELSE reg.rev
        fwd1 == IF value \in DOMAIN rev1 /\ rev1[value] # key
                THEN MapDelete(reg.fwd, rev1[value])
                ELSE reg.fwd
    IN  Registry(MapSet(fwd1, key, value), MapSet(rev1, value, key))

\* FeedbackPromptMechanic.deleteActiveEntityByKey
deleteActiveEntityByKey(reg, key) ==
    IF key \in DOMAIN reg.fwd
    THEN Registry(MapDelete(reg.fwd, key), MapDelete(reg.rev, reg.fwd[key]))
    ELSE reg

\* FeedbackPromptMechanic.deleteActiveEntityByValue
deleteActiveEntityByValue(reg, value) ==
    IF value \in DOMAIN reg.rev
    THEN Registry(MapDelete(reg.fwd, reg.rev[value]), MapDelete(reg.rev, value))
    ELSE reg

\* getActiveEntityByValue(value) !== undefined
hasValue(reg, value) == value \in DOMAIN reg.rev

\* The registry held in the mechanic's two fields.
registry == Registry(activeEntitiesKeyToValue, activeEntitiesValueToKey)

EntityIds == 1 .. NumEntityIds

\* linkPlayerEntity(key, value)
Link(k, v) ==
    /\ LET reg == setActiveEntity(registry, k, v)
       IN  /\ activeEntitiesKeyToValue' = reg.fwd
           /\ activeEntitiesValueToKey' = reg.rev
    /\ lastOp' = <<"link", k, v, registry>>

\* unlinkByPlayerId(key)
UnlinkByKey(k) ==
    /\ LET reg == deleteActiveEntityByKey(registry, k)
       IN  /\ activeEntitiesKeyToValue' = reg.fwd
           /\ activeEntitiesValueToKey' = reg.rev
    /\ lastOp' = <<"unlinkByKey", k, k, registry>>

\* unlinkByEntityId(value)
UnlinkByValue(v) ==
    /\ LET reg == deleteActiveEntityByValue(registry, v)
       IN  /\ activeEntitiesKeyToValue' = reg.fwd
           /\ activeEntitiesValueToKey' = reg.rev
    /\ lastOp' = <<"unlinkByValue", v, v, registry>>

LinkStart ==
    /\ activeEntitiesKeyToValue = EmptyMap
    /\ activeEntitiesValueToKey = EmptyMap
    /\ lastOp = <<"new", 0, 0, Registry(EmptyMap, EmptyMap)>>

PromptStart ==
    /\ npcs = <<>>
    /\ pendingPromptPlayers = {}
    /\ promptOpenedPlayers = {}
    /\ dialogueTimers = {}
    /\ removalTimers = {}
    /\ shown = {}

LinkNext ==
    \/ \E k \in Players, v \in EntityIds :
          Link(k, v) /\ UNCHANGED <<scanVars, promptVars, nickVars, navVars, extVars>>
    \/ \E k \in Players :
          UnlinkByKey(k) /\ UNCHANGED <<scanVars, promptVars, nickVars, navVars, extVars>>
    \/ \E v \in EntityIds :
          UnlinkByValue(v) /\ UNCHANGED <<scanVars, promptVars, nickVars, navVars, extVars>>


(***************************************************************************)
(* Feedback prompt: prompt NPCs, retry loop, timeouts and orphan sweep     *)
(***************************************************************************)

\* FeedbackPromptMechanic.RETRY_LOOP_BASE, DIALOGUE_OPEN_DELAY (ticks)
RETRY_LOOP_BASE == 20
DIALOGUE_OPEN_DELAY == 5

\* The mechanic's state as one value, so that a handler's calls compose.
\* dlg and rm hold the NPCs with a pending system.runTimeout callback (the
\* timeouts of repeated attempts on one NPC are held once).
World(reg, n, pend, dlg, rm) ==
    [reg |-> reg, npcs |-> n, pending |-> pend, dlg |-> dlg, rm |-> rm]

world == World(registry, npcs, pendingPromptPlayers, dialogueTimers,
               removalTimers)

\* world.getEntity(id) / entity.isValid: the NPC exists and is loaded.
isValid(n, e) == e \in DOMAIN n /\ n[e].st = "loaded"

\* dim.getEntities({ type: "edu_tools:prompt_npc" }) over all dimensions.
getEntities(n) == {e \in DOMAIN n : n[e].st = "loaded"}

\* entity.remove()
removeEntity(n, e) == [n EXCEPT ![e].st = "removed"]

\* checkAndRemoveInactiveEntities that removes every NPC it iterates.
checkAndRemoveAllEntities(w) ==
    [w EXCEPT !.npcs = [e \in DOMAIN w.npcs |->
                          IF e \in getEntities(w.npcs)
                          THEN [w.npcs[e] EXCEPT !.st = "removed"]
                          ELSE w.npcs[e]]]

\* FeedbackPromptMechanic.checkAndRemoveInactiveEntities
checkAndRemoveInactiveEntities(w) ==
    [w EXCEPT !.npcs = [e \in DOMAIN w.npcs |->
                          IF e \in getEntities(w.npcs) /\ ~hasValue(w.reg, e)
                          THEN [w.npcs[e] EXCEPT !.st = "removed"]
                          ELSE w.npcs[e]]]

\* player.dimension.spawnEntity succeeds: entity ids are never reused.
canSpawn(w) == Len(w.npcs) < MaxNpcs

\* spawnEntity followed by linkPlayerEntity(player.id, entity.id).
spawnAndLink(w, p) ==
    LET e == Len(w.npcs) + 1
    IN  [w EXCEPT !.npcs = Append(@, [owner |-> p, st |-> "loaded"]),
                  !.reg = setActiveEntity(@, p, e)]

\* tryPromptPlayer finds no existing NPC of the player and has to spawn one.
mustSpawn(w, p) ==
    ~(p \in DOMAIN w.reg.fwd /\ isValid(w.npcs, w.reg.fwd[p]))

\* tryPromptPlayer that spawns a new NPC on every attempt.
tryPromptPlayerAlwaysSpawn(w, p, on) ==
    IF p \notin on
    THEN [w EXCEPT !.pending = @ \ {p}]
    ELSE LET w1 == spawnAndLink(w, p)
             e == w1.reg.fwd[p]
         IN  [w1 EXCEPT !.dlg = @ \cup {e}, !.rm = @ \cup {e}]

\* FeedbackPromptMechanic.tryPromptPlayer
tryPromptPlayer(w, p, on) ==
    IF p \notin on
    THEN [w EXCEPT !.pending = @ \ {p}]
    ELSE LET w1 == IF mustSpawn(w, p) THEN spawnAndLink(w, p) ELSE w
             e == w1.reg.fwd[p]
         IN  [w1 EXCEPT !.dlg = @ \cup {e}, !.rm = @ \cup {e}]

\* The loop of the retry callback over the pending players; spawnEntity
\* throwing ends the callback.
RECURSIVE retryAll(_, _, _)
retryAll(w, ps, on) ==
    IF ps = <<>> THEN w
    ELSE LET p == Head(ps)
         IN  IF p \in on /\ mustSpawn(w, p) /\ ~canSpawn(w)
             THEN w
             ELSE retryAll(tryPromptPlayer(w, p, on), Tail(ps), on)

\* The state after a handler: the mechanic's fields take the values of w.
Becomes(w) ==
    /\ activeEntitiesKeyToValue' = w.reg.fwd
    /\ activeEntitiesValueToKey' = w.reg.rev
    /\ npcs' = w.npcs
    /\ pendingPromptPlayers' = w.pending
    /\ dialogueTimers' = w.dlg
    /\ removalTimers' = w.rm

\* The system.runInterval callback of startRetryLoop. Its period is at least
\* RETRY_LOOP_BASE ticks, so the dialogue timeouts of one firing (due after
\* DIALOGUE_OPEN_DELAY ticks) have run before the next firing.
startRetryLoop ==
    /\ dialogueTimers = {} \/ RETRY_LOOP_BASE <= DIALOGUE_OPEN_DELAY
    /\ LET swept == checkAndRemoveInactiveEntities(world)
       IN  Becomes(retryAll(swept, getPlayers(pendingPromptPlayers), online))
    /\ lastOp' = lastOp
    /\ UNCHANGED <<online, promptOpenedPlayers, shown>>

\* The system.runInterval callback of startActivityMonitor: the online
\* candidates whose prompt window is open (the set q) and whose prompt has
\* not been opened this session are queued.
startActivityMonitor(q) ==
    /\ q \subseteq online
    /\ pendingPromptPlayers' = pendingPromptPlayers \cup (q \ promptOpenedPlayers)
    /\ lastOp' = lastOp
    /\ UNCHANGED <<online, activeEntitiesKeyToValue, activeEntitiesValueToKey,
                   npcs, promptOpenedPlayers, dialogueTimers, removalTimers,
                   shown>>

\* The first system.runTimeout callback of tryPromptPlayer for NPC e: an
\* invalid NPC is unlinked; otherwise the dialogue command runs for the
\* player, which opens the dialogue (opens = TRUE) or fails.
dialogueTimeout(e, opens) ==
    /\ e \in dialogueTimers
    /\ dialogueTimers' = dialogueTimers \ {e}
    /\ IF ~isValid(npcs, e)
       THEN /\ LET reg == deleteActiveEntityByValue(registry, e)
               IN  /\ activeEntitiesKeyToValue' = reg.fwd
                   /\ activeEntitiesValueToKey' = reg.rev
            /\ shown' = shown
       ELSE /\ shown' = IF opens /\ npcs[e].owner \in online
                        THEN shown \cup {npcs[e].owner}
                        ELSE shown
            /\ UNCHANGED <<activeEntitiesKeyToValue, activeEntitiesValueToKey>>
    /\ lastOp' = lastOp
    /\ UNCHANGED <<online, npcs, pendingPromptPlayers, promptOpenedPlayers,
                   removalTimers>>

\* The second system.runTimeout callback of tryPromptPlayer for NPC e.
removalTimeout(e) ==
    /\ e \in removalTimers
    /\ removalTimers' = removalTimers \ {e}
    /\ IF isValid(npcs, e)
       THEN /\ npcs' = removeEntity(npcs, e)
            /\ LET reg == deleteActiveEntityByValue(registry, e)
               IN  /\ activeEntitiesKeyToValue' = reg.fwd
                   /\ activeEntitiesValueToKey' = reg.rev
       ELSE UNCHANGED <<npcs, activeEntitiesKeyToValue,
                        activeEntitiesValueToKey>>
    /\ lastOp' = lastOp
    /\ UNCHANGED <<online, pendingPromptPlayers, promptOpenedPlayers,
                   dialogueTimers, shown>>

\* FeedbackPromptMechanic.promptPlayer, called by handleManualPrompt.
promptPlayer(p, opens) ==
    /\ p \in online
    /\ IF canSpawn(world)
       THEN /\ Becomes(spawnAndLink(world, p))
            /\ shown' = IF opens THEN shown \cup {p} ELSE shown
       ELSE UNCHANGED <<activeEntitiesKeyToValue, activeEntitiesValueToKey,
                        npcs, pendingPromptPlayers, dialogueTimers,
                        removalTimers, shown>>
    /\ lastOp' = lastOp
    /\ UNCHANGED <<online, promptOpenedPlayers>>

\* FeedbackPromptMechanic.handlePromptOpened
handlePromptOpened(p) ==
    /\ p \in shown
    /\ shown' = shown \ {p}
    /\ pendingPromptPlayers' = pendingPromptPlayers \ {p}
    /\ promptOpenedPlayers' = promptOpenedPlayers \cup {p}
    /\ lastOp' = lastOp
    /\ UNCHANGED <<online, activeEntitiesKeyToValue, activeEntitiesValueToKey,
                   npcs, dialogueTimers, removalTimers>>

\* FeedbackPromptMechanic.handleFeedbackRefused
handleFeedbackRefused(p) ==
    /\ p \in online
    /\ p \in shown \cup promptOpenedPlayers
    /\ pendingPromptPlayers' = pendingPromptPlayers \ {p}
    /\ lastOp' = lastOp
    /\ UNCHANGED <<online, activeEntitiesKeyToValue, activeEntitiesValueToKey,
                   npcs, promptOpenedPlayers, dialogueTimers, removalTimers,
                   shown>>

\* A player disconnects; a dialogue they had open is closed.
PlayerLeavePrompt(p) ==
    /\ p \in online
    /\ online' = online \ {p}
    /\ shown' = shown \ {p}
    /\ UNCHANGED <<linkVars, npcs, pendingPromptPlayers, promptOpenedPlayers,
                   dialogueTimers, removalTimers>>

\* A player connects.
PlayerJoinPrompt(p) ==
    /\ p \notin online
    /\ online' = online \cup {p}
    /\ UNCHANGED <<linkVars, promptVars>>

\* The chunk of an NPC is unloaded: the entity exists but is not valid.
NpcUnload(e) ==
    /\ isValid(npcs, e)
    /\ npcs' = [npcs EXCEPT ![e].st = "unloaded"]
    /\ UNCHANGED <<online, linkVars, pendingPromptPlayers,
                   promptOpenedPlayers, dialogueTimers, removalTimers, shown>>

\* The chunk of an NPC is loaded again.
NpcLoad(e) ==
    /\ e \in DOMAIN npcs
    /\ npcs[e].st = "unloaded"
    /\ npcs' = [npcs EXCEPT ![e].st = "loaded"]
    /\ UNCHANGED <<online, linkVars, pendingPromptPlayers,
                   promptOpenedPlayers, dialogueTimers, removalTimers, shown>>

Others == <<scanInProgress, jobs, ended, inv, nickVars, navVars, extVars>>

NpcIds == 1 .. MaxNpcs

\* The players the feedback prompt is concerned with.
PromptPlayers == 1 .. NumPromptPlayers

PromptNext ==
    \/ startRetryLoop /\ UNCHANGED Others
    \/ \E q \in SUBSET online : startActivityMonitor(q) /\ UNCHANGED Others
    \/ \E e \in NpcIds, o \in BOOLEAN :
          dialogueTimeout(e, o) /\ UNCHANGED Others
    \/ \E e \in NpcIds : removalTimeout(e) /\ UNCHANGED Others
    \/ \E p \in PromptPlayers, o \in BOOLEAN : promptPlayer(p, o) /\ UNCHANGED Others
    \/ \E p \in PromptPlayers : handlePromptOpened(p) /\ UNCHANGED Others
    \/ \E p \in PromptPlayers : handleFeedbackRefused(p) /\ UNCHANGED Others
    \/ \E p \in PromptPlayers : PlayerLeavePrompt(p) /\ UNCHANGED Others
    \/ \E p \in PromptPlayers : PlayerJoinPrompt(p) /\ UNCHANGED Others
    \/ \E e \in NpcIds : NpcUnload(e) /\ UNCHANGED Others
    \/ \E e \in NpcIds : NpcLoad(e) /\ UNCHANGED Others

(***************************************************************************)
(* Student nickname prompt                                                 *)
(***************************************************************************)

\* The students the nickname prompt is concerned with (player 1 teaches).
NickPlayers == 2 .. (NumNickPlayers + 1)

\* player.getViewDirection(): unit vectors, in thousandths. The components
\* are rounded, so the length computed for a direction off the axes can come
\* out just below one, as it does for the third one.
ViewDirections == {<<1000, 0, 0>>, <<0, 0, 1000>>, <<707, 0, 706>>}

\* The location restartStudentUIPrompt stores: { x: 0, y: 0, z: 0 }.
Origin == <<0, 0, 0>>

\* Vec3.from(a).distance(b) >= 1, decided on the squared distance.
distanceAtLeastOne(a, b) ==
    (a[1] - b[1]) * (a[1] - b[1]) + (a[2] - b[2]) * (a[2] - b[2])
        + (a[3] - b[3]) * (a[3] - b[3]) >= 1000 * 1000

\* What the student can type into the nickname field.
Texts == {"", " ", "Sam"}

\* String.prototype.trim
trim(t) == IF t = " " THEN "" ELSE t

\* How a form's awaitable resolves.
Responses == {"UserBusy", "UserClosed", "Submitted"}

\* show that displays the form on top of the one already open.
showStacked(f, id) == [forms |-> Append(f, id), busy |-> FALSE]

\* UIScene.show for an actor whose displayed forms are f: the form is
\* displayed, unless the actor is already mid-dialog: then nothing is
\* displayed and the awaitable resolves as Busy.
show(f, id) ==
    IF f = <<>>
    THEN [forms |-> <<id>>, busy |-> FALSE]
    ELSE [forms |-> f, busy |-> TRUE]

\* The part of the state the scene constructor works on, as one value.
Nick(tp, f, b) == [playersToPrompt |-> tp, forms |-> f, userBusy |-> b]

\* PlayerNicknameMechanic.studentUIOpened
studentUIOpened(tp, p) == MapDelete(tp, p)

\* PlayerNicknameMechanic.restartStudentUIPrompt
restartStudentUIPrompt(tp, p) == MapSet(tp, p, Origin)

\* PlayerNicknameMechanic.startStudentUIPrompt
startStudentUIPrompt(tp, p, d) == MapSet(tp, p, d)

\* The constructor of PlayerNicknameStudentScene, which the scene manager
\* runs for createContextAndOpenScene(player, "player_nickname_student").
PlayerNicknameStudentScene(n, p) ==
    LET r == show(n.forms[p], "player_nickname_student")
    IN  Nick(studentUIOpened(n.playersToPrompt, p),
             [n.forms EXCEPT ![p] = r.forms],
             IF r.busy THEN n.userBusy \cup {p} ELSE n.userBusy)

\* The forEach of checkPlayerPrompts over the entries of the players ps. An
\* iteration touches the entry and the forms of its own player only, so the
\* order of the entries does not matter.
RECURSIVE promptEach(_, _)
promptEach(n, ps) ==
    IF ps = {}
    THEN n
    ELSE LET p == CHOOSE x \in ps : \A y \in ps : x <= y
             due == /\ p \in online
                    /\ distanceAtLeastOne(viewDirection[p],
                                          n.playersToPrompt[p])
         IN  promptEach(IF due THEN PlayerNicknameStudentScene(n, p) ELSE n,
                        ps \ {p})

\* PlayerNicknameMechanic.checkPlayerPrompts, the system.runInterval callback
checkPlayerPrompts ==
    /\ LET n0 == Nick(playersToPrompt, forms, userBusy)
           n == IF settings.nicknamesEnabled
                THEN promptEach(n0, DOMAIN playersToPrompt)
                ELSE n0
       IN  /\ playersToPrompt' = n.playersToPrompt
           /\ forms' = n.forms
           /\ userBusy' = n.userBusy
    /\ UNCHANGED <<online, viewDirection, nicknames, settings>>

\* The response handler that does not tell the Busy outcome apart.
studentResponseNoRearm(tp, p, r) == tp

\* PlayerNicknameStudentScene, response.then: the prompt set
studentResponseRearm(tp, p, r) ==
    IF r = "UserBusy" THEN restartStudentUIPrompt(tp, p) ELSE tp

\* PlayerNicknameStudentScene, response.then: the stored nicknames
studentResponseNickname(nicks, p, r, text, requireApproval) ==
    IF r # "Submitted"
    THEN nicks
    ELSE IF trim(text) # ""
         THEN IF requireApproval /\ ~isTeacher(p)
              THEN nicks
              ELSE nicks \cup {p}
         ELSE nicks \ {p}

\* The awaitable of the student form of p resolves with r and the handler
\* runs.
studentFormResponse(p, r, text, requireApproval) ==
    /\ IF r = "UserBusy"
       THEN /\ p \in userBusy
            /\ userBusy' = userBusy \ {p}
            /\ forms' = forms
       ELSE /\ p \in online
            /\ forms[p] # <<>>
            /\ Head(forms[p]) = "player_nickname_student"
            /\ forms' = [forms EXCEPT ![p] = Tail(@)]
            /\ userBusy' = userBusy
    /\ playersToPrompt' = studentResponseRearm(playersToPrompt, p, r)
    /\ nicknames' =
           studentResponseNickname(nicknames, p, r, text, requireApproval)
    /\ UNCHANGED <<online, viewDirection, settings>>

\* PlayerNicknameMechanic.onPlayerJoin for an initial spawn, the player
\* looking in direction d.
onPlayerJoin(p, d) ==
    /\ p \notin online
    /\ online' = online \cup {p}
    /\ viewDirection' = [viewDirection EXCEPT ![p] = d]
    /\ playersToPrompt' =
           IF /\ settings.nicknamesEnabled
              /\ p \notin nicknames
              /\ settings.promptOnJoin
           THEN startStudentUIPrompt(playersToPrompt, p, d)
           ELSE playersToPrompt
    /\ UNCHANGED <<forms, userBusy, nicknames, settings>>

\* PlayerNicknameMechanic.onPlayerLeave; the host closes the player's forms.
onPlayerLeave(p) ==
    /\ p \in online
    /\ online' = online \ {p}
    /\ forms' = [forms EXCEPT ![p] = <<>>]
    /\ playersToPrompt' =
           IF settings.nicknamesEnabled
           THEN MapDelete(playersToPrompt, p)
           ELSE playersToPrompt
    /\ UNCHANGED <<viewDirection, userBusy, nicknames, settings>>

\* The player turns to look in direction d.
Look(p, d) ==
    /\ p \in online
    /\ d # viewDirection[p]
    /\ viewDirection' = [viewDirection EXCEPT ![p] = d]
    /\ UNCHANGED <<online, playersToPrompt, forms, userBusy, nicknames,
                   settings>>

\* ItemService.onEducatorToolUse: the first registered scene whose condition
\* holds for the player is opened in a fresh context.
onEducatorToolUse(p, sceneId) ==
    /\ p \in online
    /\ forms' = [forms EXCEPT ![p] = show(@, sceneId).forms]
    /\ UNCHANGED <<online, playersToPrompt, viewDirection, userBusy,
                   nicknames, settings>>

\* The actor answers the form of a navigation scene: the form resolves and
\* its handler opens the scene next, or none.
sceneResponse(p, next) ==
    /\ p \in online
    /\ forms[p] # <<>>
    /\ Head(forms[p]) # "player_nickname_student"
    /\ forms' = [forms EXCEPT ![p] =
                    IF next = "none"
                    THEN Tail(@)
                    ELSE show(Tail(@), next).forms]
    /\ UNCHANGED <<online, playersToPrompt, viewDirection, userBusy,
                   nicknames, settings>>

\* PlayerNicknameSettingsScene, response.then: updateSettings
updateSettings(enabled, promptOnJoin) ==
    /\ settings' = [nicknamesEnabled |-> enabled,
                    promptOnJoin |-> promptOnJoin]
    /\ settings' # settings
    /\ UNCHANGED <<online, playersToPrompt, viewDirection, forms, userBusy,
                   nicknames>>

NickStart ==
    /\ playersToPrompt = EmptyMap
    /\ viewDirection = [p \in NickPlayers |-> <<1000, 0, 0>>]
    /\ forms = [p \in NickPlayers |-> <<>>]
    /\ userBusy = {}
    /\ nicknames = {}
    /\ settings = [nicknamesEnabled |-> FALSE, promptOnJoin |-> FALSE]

NickOthers == <<scanInProgress, jobs, ended, inv, linkVars, promptVars,
                navVars, extVars>>

NickNext ==
    \/ checkPlayerPrompts /\ UNCHANGED NickOthers
    \/ \E p \in NickPlayers, r \in Responses, t \in Texts, a \in BOOLEAN :
          studentFormResponse(p, r, t, a) /\ UNCHANGED NickOthers
    \/ \E p \in NickPlayers, d \in ViewDirections :
          onPlayerJoin(p, d) /\ UNCHANGED NickOthers
    \/ \E p \in NickPlayers : onPlayerLeave(p) /\ UNCHANGED NickOthers
    \/ \E p \in NickPlayers, d \in ViewDirections :
          Look(p, d) /\ UNCHANGED NickOthers
    \/ \E p \in NickPlayers :
          onEducatorToolUse(p, "main") /\ UNCHANGED NickOthers
    \/ \E p \in NickPlayers, s \in {"none", "environment"} :
          sceneResponse(p, s) /\ UNCHANGED NickOthers
    \/ \E e \in BOOLEAN, j \in BOOLEAN :
          updateSettings(e, j) /\ UNCHANGED NickOthers

(***************************************************************************)
(* Scene navigation: the Context history and the scenes that rewind it     *)
(***************************************************************************)

\* The registered scene ids the navigation below moves between.
SceneIds == {"main", "environment", "environment_weather", "no_teams",
             "classroom_limitations"}

\* The designated root scene.
ROOT_SCENE == "main"

\* A SceneContext: its history and the scene id current for it.
Context(h, c) == [history |-> h, current |-> c]

context == Context(history, currentScene)

\* openSceneWithContext on a Context value
openScene(ctx, id, pushHistory) ==
    Context(IF pushHistory
            THEN Append(ctx.history, ctx.current)
            ELSE ctx.history,
            id)

\* goBack on a Context value: pops levels entries and opens the entry popped
\* last without pushing; popping past the start opens the root scene.
goBackFrom(ctx, levels) ==
    LET n == Len(ctx.history)
    IN  IF levels > n
        THEN Context(<<>>, ROOT_SCENE)
        ELSE openScene(Context(SubSeq(ctx.history, 1, n - levels),
                               ctx.current),
                       ctx.history[n - levels + 1], FALSE)

\* The scan of history from index i towards the start for targetId; 0 when
\* there is no occurrence.
RECURSIVE lastIndexOf(_, _, _)
lastIndexOf(h, targetId, i) ==
    IF i = 0
    THEN 0
    ELSE IF h[i] = targetId THEN i ELSE lastIndexOf(h, targetId, i - 1)

\* goBackToScene on a Context value: truncates history to just before the
\* nearest occurrence of targetId and opens targetId; a target that never
\* occurred is logged and the root scene is opened.
goBackToSceneFrom(ctx, targetId) ==
    LET i == lastIndexOf(ctx.history, targetId, Len(ctx.history))
    IN  IF i = 0
        THEN Context(<<>>, ROOT_SCENE)
        ELSE openScene(Context(SubSeq(ctx.history, 1, i - 1), ctx.current),
                       targetId, FALSE)

\* The record of a navigation call: what was called and the Context before.
Nav(op, scene, levels) ==
    [op |-> op, scene |-> scene, levels |-> levels,
     history |-> history, current |-> currentScene]

becomesContext(ctx) ==
    /\ history' = ctx.history
    /\ currentScene' = ctx.current

\* SceneManager.createContextAndOpenScene: a fresh Context, empty history.
createContextAndOpenScene(sceneId) ==
    /\ becomesContext(Context(<<>>, sceneId))
    /\ lastNav' = Nav("create", sceneId, 0)
    /\ logged' = FALSE

\* SceneManager.openSceneWithContext
openSceneWithContext(sceneId, pushHistory) ==
    /\ currentScene # "none"
    /\ pushHistory => Len(history) < MaxHistory
    /\ becomesContext(openScene(context, sceneId, pushHistory))
    /\ lastNav' = Nav(IF pushHistory THEN "push" ELSE "replace", sceneId, 0)
    /\ logged' = FALSE

\* SceneManager.goBack
goBack(levels) ==
    /\ currentScene # "none"
    /\ becomesContext(goBackFrom(context, levels))
    /\ lastNav' = Nav("goBack", "none", levels)
    /\ logged' = FALSE

\* SceneManager.goBackToScene
goBackToScene(targetId) ==
    /\ currentScene # "none"
    /\ becomesContext(goBackToSceneFrom(context, targetId))
    /\ lastNav' = Nav("goBackToScene", targetId, 0)
    /\ logged' = (lastIndexOf(history, targetId, Len(history)) = 0)

\* The actor dismisses the current scene and the flow ends.
dismissScene ==
    /\ currentScene # "none"
    /\ becomesContext(Context(<<>>, "none"))
    /\ lastNav' = Nav("dismiss", "none", 0)
    /\ logged' = FALSE

\* NoTeamsScene whose back button goes back two levels.
NoTeamsSceneBackTwo == currentScene = "no_teams" /\ goBack(2)

\* NoTeamsScene whose back button rewinds to the main scene.
NoTeamsSceneBackToMain == currentScene = "no_teams" /\ goBackToScene("main")

\* NoTeamsScene: the back button
NoTeamsSceneBack == currentScene = "no_teams" /\ goBack(1)

\* ClassroomLimitationsScene: the form is submitted
ClassroomLimitationsSceneSubmit ==
    currentScene = "classroom_limitations" /\ goBack(1)

\* EnvironmentScene: the weather settings button
EnvironmentSceneWeather ==
    /\ currentScene = "environment"
    /\ openSceneWithContext("environment_weather", TRUE)

\* EnvironmentScene whose always-day button pushes the scene it re-shows.
EnvironmentSceneAlwaysDayPush ==
    currentScene = "environment" /\ openSceneWithContext("environment", TRUE)

\* EnvironmentScene: the always-day button re-shows the scene
EnvironmentSceneAlwaysDay ==
    currentScene = "environment" /\ openSceneWithContext("environment", FALSE)

\* EnvironmentScene whose back button goes back one level.
EnvironmentSceneBackOne == currentScene = "environment" /\ goBack(1)

\* EnvironmentScene: the back button
EnvironmentSceneBack ==
    currentScene = "environment" /\ goBackToScene("main")

\* EnvironmentWeatherScene that rewinds to the main scene.
EnvironmentWeatherSceneSubmitMain ==
    currentScene = "environment_weather" /\ goBackToScene("main")

\* EnvironmentWeatherScene: the form is submitted
EnvironmentWeatherSceneSubmit ==
    currentScene = "environment_weather" /\ goBackToScene("environment")

NavStart ==
    /\ history = <<>>
    /\ currentScene = "none"
    /\ lastNav = [op |-> "none", scene |-> "none", levels |-> 0,
                  history |-> <<>>, current |-> "none"]
    /\ logged = FALSE

NavOthers == <<scanVars, linkVars, promptVars, nickVars, extVars>>

NavNext ==
    \/ \E s \in SceneIds : createContextAndOpenScene(s) /\ UNCHANGED NavOthers
    \/ \E s \in SceneIds, push \in BOOLEAN :
          openSceneWithContext(s, push) /\ UNCHANGED NavOthers
    \/ \E l \in 1 .. (MaxHistory + 1) : goBack(l) /\ UNCHANGED NavOthers
    \/ \E s \in SceneIds : goBackToScene(s) /\ UNCHANGED NavOthers
    \/ dismissScene /\ UNCHANGED NavOthers
    \/ NoTeamsSceneBack /\ UNCHANGED NavOthers
    \/ ClassroomLimitationsSceneSubmit /\ UNCHANGED NavOthers
    \/ EnvironmentSceneWeather /\ UNCHANGED NavOthers
    \/ EnvironmentSceneAlwaysDay /\ UNCHANGED NavOthers
    \/ EnvironmentSceneBack /\ UNCHANGED NavOthers
    \/ EnvironmentWeatherSceneSubmit /\ UNCHANGED NavOthers

(***************************************************************************)
(* Scene entry: the registry lookup and the required subject team          *)
(***************************************************************************)

\* The scene ids registered with the scene manager in the assignment flow.
RegisteredScenes == {"main", "assignment_create", "team_select",
                     "assignment_created", "no_teams"}

\* The scene ids a caller can ask for: the registered ones and one that is
\* not registered.
RequestedScenes == RegisteredScenes \cup {"unregistered_scene"}

\* No scene requires a subject team.
RequiresSubjectNone == {}

\* The scenes that require the subject team of the Context:
\* AssignmentCreateScene sets setSubjectTeamRequired(true) for its next
\* scene, assignment_created.
RequiresSubject == {"assignment_created"}

\* The designated fallback scene.
FALLBACK_SCENE == "no_teams"

\* The scene the engine constructs for a request in a Context: the fallback
\* scene when the id is not registered or when the scene requires a subject
\* team the Context lacks.
sceneToConstruct(sceneId, hasSubject) ==
    IF sceneId \notin RegisteredScenes
    THEN FALLBACK_SCENE
    ELSE IF sceneId \in RequiresSubject /\ ~hasSubject
         THEN FALLBACK_SCENE
         ELSE sceneId

\* SceneManager.openSceneWithContext with the lookup and the validation
enterScene(sceneId, pushHistory) ==
    /\ currentScene # "none"
    /\ pushHistory => Len(history) < MaxHistory
    /\ becomesContext(openScene(context,
                                sceneToConstruct(sceneId, subjectTeam),
                                pushHistory))
    /\ lastNav' = Nav(IF pushHistory THEN "push" ELSE "replace", sceneId, 0)
    /\ logged' = (sceneToConstruct(sceneId, subjectTeam) # sceneId)
    /\ UNCHANGED subjectTeam

\* createContextAndOpenScene that does not look the scene id up.
requestSceneUnchecked(sceneId) ==
    /\ becomesContext(Context(<<>>, sceneId))
    /\ subjectTeam' = FALSE
    /\ lastNav' = Nav("create", sceneId, 0)
    /\ logged' = FALSE

\* SceneManager.createContextAndOpenScene with the lookup: an id that is not
\* registered is logged and no scene is shown; otherwise a fresh Context
\* (no subject team, empty history) opens the scene.
requestScene(sceneId) ==
    /\ IF sceneId \notin RegisteredScenes
       THEN /\ UNCHANGED <<history, currentScene, subjectTeam>>
            /\ logged' = TRUE
       ELSE /\ becomesContext(Context(<<>>, sceneToConstruct(sceneId, FALSE)))
            /\ subjectTeam' = FALSE
            /\ logged' = (sceneToConstruct(sceneId, FALSE) # sceneId)
    /\ lastNav' = Nav("create", sceneId, 0)

\* SceneContext.setSubjectTeam: a scene stores or clears the subject team.
setSubjectTeam(present) ==
    /\ currentScene # "none"
    /\ subjectTeam # present
    /\ subjectTeam' = present
    /\ UNCHANGED navVars

\* AssignmentTeacherScene: the create button
AssignmentTeacherSceneCreate ==
    currentScene = "main" /\ enterScene("assignment_create", TRUE)

\* AssignmentCreateScene: the form is submitted for a new assignment
AssignmentCreateSceneSubmit ==
    currentScene = "assignment_create" /\ enterScene("team_select", TRUE)

\* The actor dismisses the current scene and the flow ends.
dismissEntry ==
    /\ dismissScene
    /\ subjectTeam' = FALSE

EntryStart == subjectTeam = FALSE

EntryOthers == <<scanVars, linkVars, promptVars, nickVars, chunkVars, schedVars,
                 timerVars, envVars, gateVars, retryVars>>

EntryNext ==
    \/ \E s \in RequestedScenes : requestScene(s) /\ UNCHANGED EntryOthers
    \/ \E s \in RequestedScenes, push \in BOOLEAN :
          enterScene(s, push) /\ UNCHANGED EntryOthers
    \/ \E b \in BOOLEAN : setSubjectTeam(b) /\ UNCHANGED EntryOthers
    \/ AssignmentTeacherSceneCreate /\ UNCHANGED EntryOthers
    \/ AssignmentCreateSceneSubmit /\ UNCHANGED EntryOthers
    \/ dismissEntry /\ UNCHANGED EntryOthers

(***************************************************************************)
(* Classroom limitations: entity scan job                                  *)
(***************************************************************************)

\* DimensionTypes.getAll().map((d) => d.typeId)
Dimensions == <<"overworld", "nether", "the_end">>

WorldEntities == 1 .. NumWorldEntities

\* The dimension an entity is in: the first two are in the overworld.
dimensionOf(e) == IF e <= 2 THEN "overworld" ELSE "nether"

\* dim.getEntities({}): the entities of the dimension, as an array.
RECURSIVE sorted(_)
sorted(S) ==
    IF S = {} THEN <<>>
    ELSE LET m == CHOOSE x \in S : \A y \in S : x <= y
         IN  <<m>> \o sorted(S \ {m})

getEntitiesOf(dim, present) == sorted({e \in present : dimensionOf(e) = dim})

\* ClassroomLimitationsMechanic.checkEntity: a restricted entity is removed.
checkEntity(present, restricted, e) ==
    IF restricted /\ e \in present THEN present \ {e} ELSE present

\* A generator created by entityScanGenerator(): the dimension index, the
\* entities array of that dimension, the index of the entity checked last
\* and the yield it is suspended at ("start": not started; "entity": the
\* yield of the inner loop; "dimension": the yield of the outer loop).
entityScanGenerator ==
    [kind |-> "entity", di |-> 0, ents |-> <<>>, ei |-> 0, pc |-> "start"]

\* The outcome of one resume: the generator at its next yield, whether it
\* has returned instead, and the entities handed to checkEntity on the way.
Resumed(g, done, checked) == [gen |-> g, done |-> done, checked |-> checked]

\* The inner loop with its yield left out: a dimension's entities are all
\* checked before the yield of the outer loop.
entityLoopNoYield(g, k) ==
    Resumed([g EXCEPT !.pc = "dimension"], FALSE,
            SubSeq(g.ents, k, Len(g.ents)))

\* `for (const entity of entities) { checkEntity(entity); yield; }` from
\* index k on, followed by the yield that ends the dimension.
entityLoop(g, k) ==
    IF k <= Len(g.ents)
    THEN Resumed([g EXCEPT !.ei = k, !.pc = "entity"], FALSE, <<g.ents[k]>>)
    ELSE Resumed([g EXCEPT !.pc = "dimension"], FALSE, <<>>)

\* `for (const dimTypeId of dimensionTypeIds)` from index d on.
dimensionLoop(g, d, present) ==
    IF d > Len(Dimensions)
    THEN Resumed(g, TRUE, <<>>)
    ELSE entityLoop([g EXCEPT !.di = d, !.ei = 0,
                              !.ents = getEntitiesOf(Dimensions[d], present)],
                    1)

\* The generator runs from the yield it is suspended at to its next yield.
resumeEntityGenerator(g, present) ==
    IF g.pc = "start" THEN dimensionLoop(g, 1, present)
    ELSE IF g.pc = "entity" THEN entityLoop(g, g.ei + 1)
    ELSE dimensionLoop(g, g.di + 1, present)

\* checkEntity applied to the entities of a sequence, in order.
RECURSIVE checkEach(_, _, _)
checkEach(present, restricted, es) ==
    IF es = <<>> THEN present
    ELSE checkEach(checkEntity(present, restricted, Head(es)), restricted,
                   Tail(es))

\* system.runJob resumes the entity scan generator once.
resumeEntityScan ==
    /\ jobs # <<>>
    /\ Head(jobs).kind = "entity"
    /\ LET r == resumeEntityGenerator(Head(jobs), entities)
       IN  /\ jobs' = IF r.done THEN Tail(jobs) ELSE <<r.gen>> \o Tail(jobs)
           /\ entities' = checkEach(entities, entityRestricted, r.checked)
           /\ checkedSinceYield' = Len(r.checked)
    /\ UNCHANGED <<scanInProgress, ended, online, inv, entityRestricted>>

\* launchEntityScanJob: the generator is handed to system.runJob.
launchEntityScanJob ==
    /\ jobs' = Append(jobs, entityScanGenerator)
    /\ UNCHANGED <<scanInProgress, ended, online, inv>>

\* The teacher saves the restriction settings: setRestriction, then
\* ClassroomLimitationsService.onSettingsUpdated.
onSettingsUpdated(enabled) ==
    /\ Len(jobs) < MaxJobs
    /\ entityRestricted' = enabled
    /\ launchEntityScanJob
    /\ UNCHANGED <<entities, checkedSinceYield>>

\* An entity spawns; the entitySpawn subscription checks it at once.
EntitySpawn(e) ==
    /\ e \notin entities
    /\ entities' = checkEntity(entities \cup {e}, entityRestricted, e)
    /\ UNCHANGED <<scanVars, entityRestricted, checkedSinceYield>>

\* The inventory scan's steps leave the entity scan's state alone. The
\* players stay for the length of a scan here; SpecScan has them leave.
InventoryStep(A) == A /\ UNCHANGED chunkVars

ChunkStart ==
    /\ entities = {}
    /\ entityRestricted = FALSE
    /\ checkedSinceYield = 0

ChunkOthers == <<linkVars, promptVars, nickVars, navVars, entryVars, schedVars,
                 timerVars, envVars, gateVars, retryVars>>

ChunkNext ==
    \/ InventoryStep(scheduleInventoryScans) /\ UNCHANGED ChunkOthers
    \/ InventoryStep(resumeScan) /\ UNCHANGED ChunkOthers
    \/ \E p \in Players :
          InventoryStep(PlayerJoinScan(p)) /\ UNCHANGED ChunkOthers
    \/ \E p \in Players, s \in Slots :
          InventoryStep(AcquireItem(p, s)) /\ UNCHANGED ChunkOthers
    \/ \E b \in BOOLEAN : onSettingsUpdated(b) /\ UNCHANGED ChunkOthers
    \/ resumeEntityScan /\ UNCHANGED ChunkOthers
    \/ \E e \in WorldEntities : EntitySpawn(e) /\ UNCHANGED ChunkOthers

(***************************************************************************)
(* Periodic tasks on the host scheduler                                    *)
(***************************************************************************)

\* FeedbackPromptMechanic.RETRY_LOOP_JITTER and the period of the timer's
\* interval (ticks).
RETRY_LOOP_JITTER == 20
TIMER_PERIOD == 20

\* Math.floor(Math.random() * RETRY_LOOP_JITTER): the smallest, the next and
\* the largest value.
Jitters == {0, 1, RETRY_LOOP_JITTER - 1}

\* system.runInterval(callback, period): the run is registered under a new
\* id and is due for the first time after `period` ticks.
runInterval(rs, id, cb, period) ==
    [r \in DOMAIN rs \cup {id} |->
        IF r = id THEN [cb |-> cb, period |-> period, left |-> period]
        ELSE rs[r]]

\* system.clearRun(id)
clearRun(rs, id) == [r \in DOMAIN rs \ {id} |-> rs[r]]

NoRuns == [r \in {} |-> r]

\* The mechanic's scheduler-facing state as one value.
Timer(rs, tid) == [runs |-> rs, taskId |-> tid]

\* stop() that forgets the handle without clearing the run.
stopForgets(t) == Timer(t.runs, 0)

\* TimerMechanic.stop
stop(t) ==
    IF t.taskId # 0
    THEN Timer(clearRun(t.runs, t.taskId), 0)
    ELSE t

\* The retry callback with an error handler that clears its own run.
retryLoopCallbackClearsRun(rs, id, throws) ==
    IF throws THEN clearRun(rs, id) ELSE rs

\* The callback of startRetryLoop as the scheduler sees it: it returns or
\* throws (an exception of a host call it makes is not caught in it), and
\* it touches no run either way.
retryLoopCallback(rs, id, throws) == rs

\* The callback of TimerMechanic.initialize, tick(), likewise.
tickCallback(rs, id, throws) == rs

\* The host runs the callbacks of the due runs in id order; an exception of
\* a callback is caught and logged by the host and the next one runs.
RECURSIVE runCallbacks(_, _, _)
runCallbacks(rs, ids, T) ==
    IF ids = <<>> THEN rs
    ELSE LET id == Head(ids)
             rs1 == IF id \notin DOMAIN rs THEN rs
                    ELSE IF rs[id].cb = "retry"
                    THEN retryLoopCallback(rs, id, id \in T)
                    ELSE tickCallback(rs, id, id \in T)
         IN  runCallbacks(rs1, Tail(ids), T)

\* The runs whose countdown reaches zero in the coming tick.
dueRuns(rs) == {r \in DOMAIN rs : rs[r].left = 1}

\* The countdowns after a tick: a run that was due starts its period anew.
countDown(rs, due) ==
    [r \in DOMAIN rs |->
        IF r \in due THEN [rs[r] EXCEPT !.left = rs[r].period]
        ELSE [rs[r] EXCEPT !.left = @ - 1]]

\* One tick of the host; T holds the due runs whose callback throws.
HostTick(T) ==
    /\ runs # NoRuns
    /\ T \subseteq dueRuns(runs)
    /\ runs' = countDown(runCallbacks(runs, sorted(dueRuns(runs)), T),
                         dueRuns(runs))
    /\ lastTick' = [fired |-> dueRuns(runs), threw |-> T]
    /\ schedOp' = "tick"
    /\ UNCHANGED <<nextRunId, taskId, timerInitialized, timerStopped,
                   loopsStarted>>

\* FeedbackPromptMechanic.startRetryLoop: the interval is registered with
\* a period of RETRY_LOOP_BASE ticks and jitter j; the id is not kept.
registerRetryLoop(j) ==
    /\ ~loopsStarted
    /\ loopsStarted' = TRUE
    /\ runs' = runInterval(runs, nextRunId, "retry", RETRY_LOOP_BASE + j)
    /\ nextRunId' = nextRunId + 1
    /\ schedOp' = "startRetryLoop"
    /\ UNCHANGED <<taskId, timerInitialized, timerStopped, lastTick>>

\* TimerService.initialize: the mechanic is constructed and its initialize()
\* registers the tick interval and keeps the id.
initialize ==
    /\ ~timerInitialized
    /\ timerInitialized' = TRUE
    /\ runs' = runInterval(runs, nextRunId, "tick", TIMER_PERIOD)
    /\ taskId' = nextRunId
    /\ nextRunId' = nextRunId + 1
    /\ schedOp' = "initialize"
    /\ UNCHANGED <<timerStopped, loopsStarted, lastTick>>

\* A call of TimerMechanic.stop().
TimerStop ==
    /\ LET t == stop(Timer(runs, taskId))
       IN  /\ runs' = t.runs
           /\ taskId' = t.taskId
    /\ timerStopped' = (timerStopped \/ taskId # 0)
    /\ schedOp' = IF taskId # 0 THEN "stop" ELSE "stopAgain"
    /\ UNCHANGED <<nextRunId, timerInitialized, loopsStarted, lastTick>>

SchedStart ==
    /\ runs = NoRuns
    /\ nextRunId = 1
    /\ taskId = 0
    /\ timerInitialized = FALSE
    /\ timerStopped = FALSE
    /\ loopsStarted = FALSE
    /\ lastTick = [fired |-> {}, threw |-> {}]
    /\ schedOp = "none"

SchedOthers == <<scanVars, linkVars, promptVars, nickVars, navVars, entryVars,
                 chunkVars, timerVars, envVars, gateVars, retryVars>>

SchedNext ==
    \/ \E T \in SUBSET DOMAIN runs : HostTick(T) /\ UNCHANGED SchedOthers
    \/ \E j \in Jitters : registerRetryLoop(j) /\ UNCHANGED SchedOthers
    \/ initialize /\ UNCHANGED SchedOthers
    \/ TimerStop /\ UNCHANGED SchedOthers

(***************************************************************************)
(* Timer: stored state, countdown and visual entity                        *)
(***************************************************************************)

\* handleInactivity: TICK_MS and MIN_OFFLINE_THRESHOLD_MS; updateTimerEntity:
\* the window of the times_up message (ms).
TICK_MS == 50
MIN_OFFLINE_THRESHOLD_MS == 250
TIMES_UP_MS == 50

\* The interval of TimerMechanic.initialize in real time.
TICK_INTERVAL_MS == TIMER_PERIOD * TICK_MS

\* The moments within an interval at which something is observed: right
\* after the periodic tick, 30 ms later, and at the next tick.
Offsets == <<0, 30, TICK_INTERVAL_MS>>

\* Timer.duration in seconds. The options of TimerDuration are 30 s and
\* more; the countdown is followed here for short durations.
Durations == 1 .. MaxDuration

\* The game ticks of the session before the clock followed here starts.
SessionTicks == 2 * TIMER_PERIOD

\* The real time followed, in seconds.
MaxSeconds == MaxDuration + 1

\* Real time for which the game is closed (ms).
Gaps == {MIN_OFFLINE_THRESHOLD_MS, TICK_INTERVAL_MS}

TimerDimensions == {"overworld", "nether"}

\* interface Timer, `exists` telling a stored timer from undefined and
\* entityId 0 standing for undefined.
StoredTimer(d, st, pa, sAt, pAt, pd, e, lt, lrt, co) ==
    [exists |-> TRUE, duration |-> d, started |-> st, isPaused |-> pa,
     startedAt |-> sAt, pausedAt |-> pAt, pauseDuration |-> pd,
     entityId |-> e, lastTick |-> lt, lastRealTime |-> lrt,
     countOffline |-> co]

NoTimer ==
    [exists |-> FALSE, duration |-> 0, started |-> FALSE, isPaused |-> FALSE,
     startedAt |-> 0, pausedAt |-> 0, pauseDuration |-> 0, entityId |-> 0,
     lastTick |-> 0, lastRealTime |-> 0, countOffline |-> FALSE]

Max(a, b) == IF a >= b THEN a ELSE b

\* The remaining time before Math.max(0, .) is applied.
remainingRaw(t, clock) ==
    IF t.isPaused
    THEN t.duration * 1000 - (t.pausedAt - t.startedAt - t.pauseDuration)
    ELSE t.duration * 1000 - (clock - t.startedAt - t.pauseDuration)

\* TimerService.getRemainingTime
getRemainingTime(t, clock) ==
    IF ~t.exists THEN 0
    ELSE IF ~t.started THEN t.duration * 1000
    ELSE Max(0, remainingRaw(t, clock))

\* TimerService.isTimerRunning
isTimerRunning(t) == t.exists /\ t.started /\ ~t.isPaused

\* TimerService.startTimer
startTimer(t, tickNo, clock) ==
    IF ~t.exists \/ t.started THEN t
    ELSE [t EXCEPT !.started = TRUE, !.startedAt = clock, !.isPaused = FALSE,
                   !.pausedAt = 0, !.pauseDuration = 0, !.lastTick = tickNo,
                   !.lastRealTime = clock]

\* pauseTimer that does not test the state of the timer.
pauseTimerUnguarded(t, clock) ==
    IF ~t.exists THEN t
    ELSE [t EXCEPT !.isPaused = TRUE, !.pausedAt = clock]

\* TimerService.pauseTimer
pauseTimer(t, clock) ==
    IF ~t.exists \/ ~isTimerRunning(t) THEN t
    ELSE [t EXCEPT !.isPaused = TRUE, !.pausedAt = clock]

\* resumeTimer that does not add the pause to pauseDuration.
resumeTimerForgetsPause(t, tickNo, clock) ==
    IF ~t.exists \/ ~t.isPaused THEN t
    ELSE [t EXCEPT !.isPaused = FALSE, !.pausedAt = 0, !.lastTick = tickNo,
                   !.lastRealTime = clock]

\* TimerService.resumeTimer
resumeTimer(t, tickNo, clock) ==
    IF ~t.exists \/ ~t.isPaused THEN t
    ELSE [t EXCEPT !.isPaused = FALSE, !.pausedAt = 0,
                   !.pauseDuration = @ + (clock - t.pausedAt),
                   !.lastTick = tickNo, !.lastRealTime = clock]

\* offlineMs with the threshold itself counted as no offline time.
offlineMsAboveThreshold(t, tickNo, clock) ==
    LET tickDelta == tickNo - t.lastTick
        realDelta == clock - t.lastRealTime
        expectedMs == tickDelta * TICK_MS
        o0 == realDelta - expectedMs
        o1 == IF o0 <= MIN_OFFLINE_THRESHOLD_MS THEN 0 ELSE o0
        o2 == IF tickDelta < 0 THEN 0 ELSE o1
    IN  IF realDelta < expectedMs THEN 0 ELSE o2

\* The offline time handleInactivity detects, after its heuristics (the
\* clamp to one year is beyond the clock followed here).
offlineMs(t, tickNo, clock) ==
    LET tickDelta == tickNo - t.lastTick
        realDelta == clock - t.lastRealTime
        expectedMs == tickDelta * TICK_MS
        o0 == realDelta - expectedMs
        o1 == IF o0 < MIN_OFFLINE_THRESHOLD_MS THEN 0 ELSE o0
        o2 == IF tickDelta < 0 THEN 0 ELSE o1
    IN  IF realDelta < expectedMs THEN 0 ELSE o2

\* handleInactivity that adds the offline time also while the timer is paused.
handleInactivityWhilePaused(t, tickNo, clock) ==
    IF ~t.exists \/ ~t.started THEN t
    ELSE IF offlineMs(t, tickNo, clock) > 0 /\ ~t.countOffline
    THEN [t EXCEPT !.pauseDuration = @ + offlineMs(t, tickNo, clock),
                   !.lastTick = tickNo, !.lastRealTime = clock]
    ELSE [t EXCEPT !.lastTick = tickNo, !.lastRealTime = clock]

\* TimerService.handleInactivity
handleInactivity(t, tickNo, clock) ==
    IF ~t.exists \/ ~t.started THEN t
    ELSE IF offlineMs(t, tickNo, clock) > 0 /\ ~t.isPaused /\ ~t.countOffline
    THEN [t EXCEPT !.pauseDuration = @ + offlineMs(t, tickNo, clock),
                   !.lastTick = tickNo, !.lastRealTime = clock]
    ELSE [t EXCEPT !.lastTick = tickNo, !.lastRealTime = clock]

\* The service's state and the world's timer entities as one value; sent
\* tells whether the times_up message was broadcast for the stored timer.
TimerWorld(t, es, sent) == [timer |-> t, ents |-> es, sent |-> sent]

\* TimerService.getEntity: the id of the entity found, 0 for undefined.
getEntity(w) ==
    IF w.timer.exists /\ w.timer.entityId # 0
       /\ isValid(w.ents, w.timer.entityId)
    THEN w.timer.entityId
    ELSE 0

\* TimerService.removeEntity: the entity of the stored timer, then every
\* timer entity the overworld returns.
removeTimerEntity(w) ==
    [w EXCEPT !.ents =
        [e \in DOMAIN w.ents |->
            IF \/ e = getEntity(w)
               \/ (isValid(w.ents, e) /\ w.ents[e].dim = "overworld")
            THEN [w.ents[e] EXCEPT !.st = "removed"]
            ELSE w.ents[e]]]

\* TimerService.clearTimer
clearTimer(w) == removeTimerEntity([w EXCEPT !.timer = NoTimer])

\* TimerService.updateTimerEntity: the display is not followed; an expired
\* running timer is cleared and the final message is broadcast in its window.
updateTimerEntity(w, clock) ==
    IF ~w.timer.exists THEN w
    ELSE IF getEntity(w) = 0 THEN w
    ELSE IF ~isTimerRunning(w.timer) THEN w
    ELSE IF getRemainingTime(w.timer, clock) <= 0 THEN clearTimer(w)
    ELSE IF getRemainingTime(w.timer, clock) < TIMES_UP_MS
    THEN [w EXCEPT !.sent = TRUE]
    ELSE w

\* TimerService.summonEntityAtPlayer for a player in dimension dim.
summonEntityAtPlayer(w, dim, clock) ==
    LET w1 == removeTimerEntity(w)
        e == Len(w1.ents) + 1
        w2 == [w1 EXCEPT !.ents = Append(@, [dim |-> dim, st |-> "loaded"]),
                         !.timer = IF @.exists THEN [@ EXCEPT !.entityId = e]
                                   ELSE @]
    IN  updateTimerEntity(w2, clock)

\* TimerService.newTimer({ duration, countOffline }, player)
newTimer(w, d, co, dim, tickNo, clock) ==
    LET e == Len(w.ents) + 1
        w1 == summonEntityAtPlayer(w, dim, clock)
        new == StoredTimer(d, FALSE, FALSE, 0, 0, 0, e, tickNo, clock, co)
    IN  updateTimerEntity([w1 EXCEPT !.timer = new, !.sent = FALSE], clock)

\* TimerMechanic.tick
tick(w, tickNo, clock) ==
    updateTimerEntity(
        [w EXCEPT !.timer = handleInactivity(@, tickNo, clock)], clock)

\* The stored timer and the world as the service's operations see them.
timerWorld == TimerWorld(timer, timerEntities, timesUpSent)

\* The state after an operation: the stored timer, the entities and the
\* record of the message take the values of w.
becomesTimerWorld(w) ==
    /\ timer' = w.timer
    /\ timerEntities' = w.ents
    /\ timesUpSent' = w.sent

\* The state of a stored timer, as the guards of the operations tell it.
timerStatus(t) ==
    IF ~t.exists THEN "none"
    ELSE IF ~t.started THEN "new"
    ELSE IF t.isPaused THEN "paused"
    ELSE "running"

\* A call can be made at any observed moment before the periodic tick is due.
betweenTicks == phase < Len(Offsets)

NewTimer(d, co, dim) ==
    /\ betweenTicks
    /\ Len(timerEntities) < MaxTimerEntities
    /\ becomesTimerWorld(newTimer(timerWorld, d, co, dim, currentTick, now))
    /\ closedFor' = 0
    /\ lastEvent' = "none"
    /\ UNCHANGED <<now, currentTick, phase, reopened>>

StartTimer ==
    /\ betweenTicks
    /\ becomesTimerWorld(
          IF timerStatus(timer) = "new"
          THEN updateTimerEntity(
                  [timerWorld EXCEPT !.timer = startTimer(@, currentTick, now)],
                  now)
          ELSE timerWorld)
    /\ closedFor' = 0
    /\ lastEvent' = IF timerStatus(timer) # "new" THEN "refused" ELSE "none"
    /\ UNCHANGED <<now, currentTick, phase, reopened>>

PauseTimer ==
    /\ betweenTicks
    /\ timer' = pauseTimer(timer, now)
    /\ closedFor' = 0
    /\ lastEvent' = IF timerStatus(timer) # "running" THEN "refused" ELSE "none"
    /\ UNCHANGED <<timerEntities, timesUpSent, now, currentTick, phase, reopened>>

ResumeTimer ==
    /\ betweenTicks
    /\ timer' = resumeTimer(timer, currentTick, now)
    /\ closedFor' = 0
    /\ lastEvent' = IF timerStatus(timer) # "paused" THEN "refused" ELSE "none"
    /\ UNCHANGED <<timerEntities, timesUpSent, now, currentTick, phase, reopened>>

ClearTimer ==
    /\ betweenTicks
    /\ becomesTimerWorld(clearTimer(timerWorld))
    /\ closedFor' = 0
    /\ lastEvent' = "none"
    /\ UNCHANGED <<now, currentTick, phase, reopened>>

\* Time passes to the next observed moment of the interval, at TICK_MS of
\* real time a game tick.
Wait ==
    /\ betweenTicks
    /\ now + (Offsets[phase + 1] - Offsets[phase]) <= MaxSeconds * 1000
    /\ phase' = phase + 1
    /\ now' = now + (Offsets[phase + 1] - Offsets[phase])
    /\ currentTick' = currentTick
                      + (Offsets[phase + 1] \div TICK_MS)
                      - (Offsets[phase] \div TICK_MS)
    /\ lastEvent' = "none"
    /\ UNCHANGED <<timer, timerEntities, timesUpSent, reopened, closedFor>>

\* The interval of TimerMechanic.initialize fires.
PeriodicTick ==
    /\ phase = Len(Offsets)
    /\ phase' = 1
    /\ becomesTimerWorld(tick(timerWorld, currentTick, now))
    /\ closedFor' = 0
    /\ lastEvent' = IF closedFor > 0 THEN "reopenTick" ELSE "none"
    /\ UNCHANGED <<now, currentTick, reopened>>

\* The game is closed right after a tick and opened again g ms later, once
\* in a behaviour: the scripts start anew, so the interval is registered
\* again, and system.currentTick either goes on from its value or starts
\* from zero.
CloseAndReopen(g, restart) ==
    /\ phase = 1
    /\ ~reopened
    /\ now + g <= MaxSeconds * 1000
    /\ reopened' = TRUE
    /\ closedFor' = g
    /\ now' = now + g
    /\ currentTick' = IF restart THEN 0 ELSE currentTick
    /\ phase' = 1
    /\ lastEvent' = "none"
    /\ UNCHANGED <<timer, timerEntities, timesUpSent>>

\* The chunk of a timer entity is unloaded, and stays so.
TimerEntityUnload(e) ==
    /\ isValid(timerEntities, e)
    /\ timerEntities' = [timerEntities EXCEPT ![e].st = "unloaded"]
    /\ lastEvent' = "none"
    /\ UNCHANGED <<timer, timesUpSent, now, currentTick, phase, reopened,
                   closedFor>>

TimerStart ==
    /\ timer = NoTimer
    /\ timerEntities = <<>>
    /\ timesUpSent = FALSE
    /\ now = 0
    /\ currentTick = SessionTicks
    /\ phase = 1
    /\ reopened = FALSE
    /\ closedFor = 0
    /\ lastEvent = "none"

TimerOthers == <<scanVars, linkVars, promptVars, nickVars, navVars, entryVars,
                 chunkVars, schedVars, envVars, gateVars, retryVars>>

TimerNext ==
    \/ \E d \in Durations, co \in BOOLEAN, dim \in TimerDimensions :
          NewTimer(d, co, dim) /\ UNCHANGED TimerOthers
    \/ StartTimer /\ UNCHANGED TimerOthers
    \/ PauseTimer /\ UNCHANGED TimerOthers
    \/ ResumeTimer /\ UNCHANGED TimerOthers
    \/ ClearTimer /\ UNCHANGED TimerOthers
    \/ Wait /\ UNCHANGED TimerOthers
    \/ PeriodicTick /\ UNCHANGED TimerOthers
    \/ \E g \in Gaps, r \in BOOLEAN : CloseAndReopen(g, r) /\ UNCHANGED TimerOthers
    \/ \E e \in 1 .. MaxTimerEntities : TimerEntityUnload(e) /\ UNCHANGED TimerOthers

\* ---------------------------------------------------------------------------
\* Environment: smooth transition of the world time
\* ---------------------------------------------------------------------------

\* Ticks of a day of the world time.
DAY_TICKS == 24000

DEFAULT_TRANSITION_SPEED == 100

\* A storage entry: <<>> when nothing is stored under the key, <<v>> else.
Unset == <<>>
Stored(v) == <<v>>

\* Times of day that are set as targets, read from the real clock or found
\* in the world: sunrise, noon, the last tick of the day.
DayTimes == {0, 6000, DAY_TICKS - 1}

\* Transition speeds that are stored: the default, one that does not divide
\* the day, a whole day a tick.
Speeds == {DEFAULT_TRANSITION_SPEED, 7000, DAY_TICKS}

\* EnvironmentService.getDayTimeTarget
getDayTimeTarget(c) == IF c = Unset THEN -1 ELSE c[1]

\* EnvironmentService.hasTimeTransitionTarget
hasTimeTransitionTarget(c) == getDayTimeTarget(c) # -1

\* EnvironmentService.getTimeTransitionSpeed
getTimeTransitionSpeed(c) == IF c = Unset THEN DEFAULT_TRANSITION_SPEED ELSE c[1]

\* The environment as the mechanic reads and writes it.
Environment(t, target, speed) == [time |-> t, target |-> target, speed |-> speed]

\* The forward distance from the world time to the target, wrapping at the
\* end of the day.
forwardDistance(env) ==
    (getDayTimeTarget(env.target) - env.time + DAY_TICKS) % DAY_TICKS

\* handleSmoothTransition that lands on the target only from the target itself.
handleSmoothTransitionExactOnly(env) ==
    IF forwardDistance(env) = 0
    THEN [env EXCEPT !.time = getDayTimeTarget(env.target), !.target = Unset]
    ELSE [env EXCEPT
            !.time = (@ + getTimeTransitionSpeed(env.speed)) % DAY_TICKS]

\* EnvironmentMechanic.handleSmoothTransition
handleSmoothTransition(env) ==
    IF forwardDistance(env) <= getTimeTransitionSpeed(env.speed)
    THEN [env EXCEPT !.time = getDayTimeTarget(env.target), !.target = Unset]
    ELSE [env EXCEPT
            !.time = (@ + getTimeTransitionSpeed(env.speed)) % DAY_TICKS]

Abs(a) == IF a < 0 THEN -a ELSE a

\* The ticks of a transition allowed for speed s: ceil(DAY_TICKS / s).
transitionBound(s) == (DAY_TICKS + s - 1) \div s

environment == Environment(worldTime, dayTimeTarget, timeTransitionSpeed)

\* EnvironmentService.setDayTime: the target is stored, the world time is
\* left to the ticks.
SetDayTime(t) ==
    /\ dayTimeTarget' = Stored(t)
    /\ transitionTicks' = 0
    /\ UNCHANGED <<worldTime, timeTransitionSpeed, realTimeDaylight>>

\* EnvironmentService.setTimeTransitionSpeed, between transitions.
SetTimeTransitionSpeed(s) ==
    /\ ~hasTimeTransitionTarget(dayTimeTarget)
    /\ timeTransitionSpeed' = Stored(s)
    /\ UNCHANGED <<worldTime, dayTimeTarget, realTimeDaylight, transitionTicks>>

\* EnvironmentService.setRealTimeDaylight
SetRealTimeDaylight(v) ==
    /\ realTimeDaylight' = v
    /\ UNCHANGED <<worldTime, dayTimeTarget, timeTransitionSpeed, transitionTicks>>

\* Another writer sets the world time (a command, a bed), between transitions.
WorldTimeSet(t) ==
    /\ ~hasTimeTransitionTarget(dayTimeTarget)
    /\ worldTime' = t
    /\ UNCHANGED <<dayTimeTarget, timeTransitionSpeed, realTimeDaylight,
                   transitionTicks>>

\* EnvironmentMechanic.tick, run every game tick; ticks is the time of day
\* read from the real clock.
EnvironmentTick(ticks) ==
    IF hasTimeTransitionTarget(dayTimeTarget)
    THEN /\ worldTime' = handleSmoothTransition(environment).time
         /\ dayTimeTarget' = handleSmoothTransition(environment).target
         /\ transitionTicks' = transitionTicks + 1
         /\ UNCHANGED <<timeTransitionSpeed, realTimeDaylight>>
    ELSE IF realTimeDaylight /\ Abs(worldTime - ticks) > 1
    THEN /\ dayTimeTarget' = Stored(ticks)
         /\ transitionTicks' = 0
         /\ UNCHANGED <<worldTime, timeTransitionSpeed, realTimeDaylight>>
    ELSE UNCHANGED envVars

EnvStart ==
    /\ worldTime = 0
    /\ dayTimeTarget = Unset
    /\ timeTransitionSpeed = Unset
    /\ realTimeDaylight = FALSE
    /\ transitionTicks = 0

EnvOthers == <<scanVars, linkVars, promptVars, nickVars, navVars, entryVars,
               chunkVars, schedVars, timerVars, gateVars, retryVars>>

EnvNext ==
    \/ \E t \in DayTimes : SetDayTime(t) /\ UNCHANGED EnvOthers
    \/ \E s \in Speeds : SetTimeTransitionSpeed(s) /\ UNCHANGED EnvOthers
    \/ \E v \in BOOLEAN : SetRealTimeDaylight(v) /\ UNCHANGED EnvOthers
    \/ \E t \in DayTimes : WorldTimeSet(t) /\ UNCHANGED EnvOthers
    \/ \E t \in DayTimes : EnvironmentTick(t) /\ UNCHANGED EnvOthers

\* ---------------------------------------------------------------------------
\* Feedback prompt: candidates and the gates of the activity monitor
\* ---------------------------------------------------------------------------

MIN_PROMPT_DELAY_MINUTES == 5
SESSION_WARMUP_MINUTES == 10
IDLE_WINDOW_SECONDS == 15

\* new Date() at the construction of the service, in seconds.
worldInitDate == 0

\* The instants the clock is read at, in seconds: the start, the minimum
\* delay after it, one idle window before the warmup ends, its end, and one
\* idle window after it.
GateTimes ==
    {worldInitDate,
     MIN_PROMPT_DELAY_MINUTES * 60,
     SESSION_WARMUP_MINUTES * 60 - IDLE_WINDOW_SECONDS,
     SESSION_WARMUP_MINUTES * 60,
     SESSION_WARMUP_MINUTES * 60 + IDLE_WINDOW_SECONDS}

\* PromptCandidate, and the value standing for no entry in playersToPrompt.
PromptCandidate(s, a) == [exists |-> TRUE, scheduledAt |-> s, lastActiveAt |-> a]
NoCandidate == [exists |-> FALSE, scheduledAt |-> 0, lastActiveAt |-> 0]

\* FeedbackPromptService.ensureCandidate
ensureCandidate(c, p, t) ==
    IF c[p].exists THEN c ELSE [c EXCEPT ![p] = PromptCandidate(t, t)]

\* FeedbackPromptService.refreshActivityForPlayer; moving tells whether the
\* player's speed is above MOVEMENT_SPEED_THRESHOLD.
refreshActivityForPlayer(c, p, moving, t) ==
    IF ~c[p].exists THEN c
    ELSE IF moving THEN [c EXCEPT ![p].lastActiveAt = t]
    ELSE c

\* FeedbackPromptService.hasWorldWarmupElapsed
hasWorldWarmupElapsed(t) == t - worldInitDate >= SESSION_WARMUP_MINUTES * 60

\* FeedbackPromptService.hasMinimumDelayElapsed
hasMinimumDelayElapsed(cand, t) ==
    t - cand.scheduledAt >= MIN_PROMPT_DELAY_MINUTES * 60

\* FeedbackPromptService.isIdleEnough
isIdleEnough(cand, t) == t - cand.lastActiveAt >= IDLE_WINDOW_SECONDS

\* isPromptWindowOpen without the idle gate.
isPromptWindowOpenNoIdle(cand, t) ==
    /\ hasWorldWarmupElapsed(t)
    /\ hasMinimumDelayElapsed(cand, t)

\* FeedbackPromptService.isPromptWindowOpen
isPromptWindowOpen(cand, t) ==
    /\ hasWorldWarmupElapsed(t)
    /\ hasMinimumDelayElapsed(cand, t)
    /\ isIdleEnough(cand, t)

\* What a run of the activity monitor reads and writes.
Monitor(c, pend) == [cands |-> c, pending |-> pend]

\* The body of the monitor's loop that queues also players for whom the
\* prompt was opened.
monitorOneReprompts(st, p, moving, t) ==
    IF ~st.cands[p].exists \/ p \notin online THEN st
    ELSE LET c1 == refreshActivityForPlayer(st.cands, p, p \in moving, t)
         IN  IF p \in feedbackProvided
             THEN [st EXCEPT !.cands = [c1 EXCEPT ![p] = NoCandidate]]
             ELSE IF isPromptWindowOpen(c1[p], t)
             THEN Monitor(c1, st.pending \cup {p})
             ELSE [st EXCEPT !.cands = c1]

\* The body of the monitor's loop for candidate p.
monitorOne(st, p, moving, t) ==
    IF ~st.cands[p].exists \/ p \notin online THEN st
    ELSE LET c1 == refreshActivityForPlayer(st.cands, p, p \in moving, t)
         IN  IF p \in promptOpenedPlayers THEN [st EXCEPT !.cands = c1]
             ELSE IF p \in feedbackProvided
             THEN [st EXCEPT !.cands = [c1 EXCEPT ![p] = NoCandidate]]
             ELSE IF isPromptWindowOpen(c1[p], t)
             THEN Monitor(c1, st.pending \cup {p})
             ELSE [st EXCEPT !.cands = c1]

\* The monitor's loop over the candidates ps; the entries are independent of
\* one another, so the order of the keys does not matter.
RECURSIVE monitorAll(_, _, _, _)
monitorAll(st, ps, moving, t) ==
    IF ps = {} THEN st
    ELSE LET p == CHOOSE q \in ps : \A r \in ps : q <= r
         IN  monitorAll(monitorOne(st, p, moving, t), ps \ {p}, moving, t)

\* The callback of startActivityMonitor; moving are the players in motion.
ActivityMonitor(moving) ==
    LET st == monitorAll(Monitor(promptCandidates, pendingPromptPlayers),
                         PromptPlayers, moving, date)
    IN  /\ moving \subseteq online \cap PromptPlayers
        /\ promptCandidates' = st.cands
        /\ pendingPromptPlayers' = st.pending
        /\ monitorRan' = TRUE
        /\ UNCHANGED <<online, promptOpenedPlayers, feedbackProvided, date>>

\* FeedbackPromptService.handleToolUse
ToolUse(p) ==
    /\ p \in online
    /\ promptCandidates' = IF isTeacher(p)
                           THEN ensureCandidate(promptCandidates, p, date)
                           ELSE promptCandidates
    /\ monitorRan' = FALSE
    /\ UNCHANGED <<online, pendingPromptPlayers, promptOpenedPlayers,
                   feedbackProvided, date>>

\* FeedbackPromptMechanic.handlePromptOpened, on the event of the dialogue.
PromptOpened(p) ==
    /\ p \in online
    /\ pendingPromptPlayers' = pendingPromptPlayers \ {p}
    /\ promptOpenedPlayers' = promptOpenedPlayers \cup {p}
    /\ monitorRan' = FALSE
    /\ UNCHANGED <<online, promptCandidates, feedbackProvided, date>>

\* FeedbackPromptMechanic.handleFeedbackProvided
FeedbackProvided(p) ==
    /\ p \in online
    /\ feedbackProvided' = feedbackProvided \cup {p}
    /\ monitorRan' = FALSE
    /\ UNCHANGED <<online, promptCandidates, pendingPromptPlayers,
                   promptOpenedPlayers, date>>

\* FeedbackPromptMechanic.handleFeedbackRefused
FeedbackRefused(p) ==
    /\ p \in online
    /\ pendingPromptPlayers' = pendingPromptPlayers \ {p}
    /\ promptCandidates' = [promptCandidates EXCEPT ![p] = NoCandidate]
    /\ monitorRan' = FALSE
    /\ UNCHANGED <<online, promptOpenedPlayers, feedbackProvided, date>>

\* The retry loop's tryPromptPlayer for a pending player who is offline; for
\* one who is online it leaves the sets and the candidates alone.
RetryDropsOffline(p) ==
    /\ p \in pendingPromptPlayers
    /\ p \notin online
    /\ pendingPromptPlayers' = pendingPromptPlayers \ {p}
    /\ monitorRan' = FALSE
    /\ UNCHANGED <<online, promptCandidates, promptOpenedPlayers,
                   feedbackProvided, date>>

\* The script event edu_tools:feedback_clear_storage.
ClearStorage ==
    /\ feedbackProvided' = {}
    /\ monitorRan' = FALSE
    /\ UNCHANGED <<online, promptCandidates, pendingPromptPlayers,
                   promptOpenedPlayers, date>>

GateJoin(p) ==
    /\ p \notin online
    /\ online' = online \cup {p}
    /\ monitorRan' = FALSE
    /\ UNCHANGED <<promptCandidates, pendingPromptPlayers, promptOpenedPlayers,
                   feedbackProvided, date>>

GateLeave(p) ==
    /\ p \in online
    /\ online' = online \ {p}
    /\ monitorRan' = FALSE
    /\ UNCHANGED <<promptCandidates, pendingPromptPlayers, promptOpenedPlayers,
                   feedbackProvided, date>>

\* Real time passes to a later instant.
Advance(t) ==
    /\ t > date
    /\ date' = t
    /\ monitorRan' = FALSE
    /\ UNCHANGED <<online, promptCandidates, pendingPromptPlayers,
                   promptOpenedPlayers, feedbackProvided>>

GateStart ==
    /\ date = worldInitDate
    /\ promptCandidates = [p \in PromptPlayers |-> NoCandidate]
    /\ feedbackProvided = {}
    /\ monitorRan = FALSE

GateOthers == <<scanInProgress, jobs, ended, inv, linkVars, npcs, dialogueTimers,
                removalTimers, shown, nickVars, navVars, entryVars, chunkVars,
                schedVars, timerVars, envVars,
               retryVars>>

GateNext ==
    \/ \E q \in SUBSET PromptPlayers : ActivityMonitor(q) /\ UNCHANGED GateOthers
    \/ \E p \in PromptPlayers : ToolUse(p) /\ UNCHANGED GateOthers
    \/ \E p \in PromptPlayers : PromptOpened(p) /\ UNCHANGED GateOthers
    \/ \E p \in PromptPlayers : FeedbackProvided(p) /\ UNCHANGED GateOthers
    \/ \E p \in PromptPlayers : FeedbackRefused(p) /\ UNCHANGED GateOthers
    \/ \E p \in PromptPlayers : RetryDropsOffline(p) /\ UNCHANGED GateOthers
    \/ ClearStorage /\ UNCHANGED GateOthers
    \/ \E p \in PromptPlayers : GateJoin(p) /\ UNCHANGED GateOthers
    \/ \E p \in PromptPlayers : GateLeave(p) /\ UNCHANGED GateOthers
    \/ \E t \in GateTimes : Advance(t) /\ UNCHANGED GateOthers

ExtStart ==
    /\ EntryStart /\ ChunkStart /\ SchedStart /\ TimerStart /\ EnvStart
    /\ GateStart
    /\ retryFirings = 0
    /\ tried = {}

(***************************************************************************)
(* Specifications                                                          *)
(***************************************************************************)

ScanInit == ScanStart /\ LinkStart /\ PromptStart /\ NickStart /\ NavStart /\ ExtStart

SpecScan == ScanInit /\ [][ScanNext]_vars

LinkInit == ScanStart /\ LinkStart /\ PromptStart /\ NickStart /\ NavStart /\ ExtStart

SpecLink == LinkInit /\ [][LinkNext]_vars

PromptInit == ScanStart /\ LinkStart /\ PromptStart /\ NickStart /\ NavStart /\ ExtStart

SpecPrompt == PromptInit /\ [][PromptNext]_vars

NickInit == ScanStart /\ LinkStart /\ PromptStart /\ NickStart /\ NavStart /\ ExtStart

SpecNick == NickInit /\ [][NickNext]_vars

NavInit == ScanStart /\ LinkStart /\ PromptStart /\ NickStart /\ NavStart /\ ExtStart

SpecNav == NavInit /\ [][NavNext]_vars

EntryInit == ScanStart /\ LinkStart /\ PromptStart /\ NickStart /\ NavStart /\ ExtStart

SpecEntry == EntryInit /\ [][EntryNext]_vars

ChunkInit == ScanStart /\ LinkStart /\ PromptStart /\ NickStart /\ NavStart /\ ExtStart

SpecChunk == ChunkInit /\ [][ChunkNext]_vars

SchedInit == ScanStart /\ LinkStart /\ PromptStart /\ NickStart /\ NavStart /\ ExtStart

SpecSched == SchedInit /\ [][SchedNext]_vars

TimerInit == ScanStart /\ LinkStart /\ PromptStart /\ NickStart /\ NavStart /\ ExtStart

SpecTimer == TimerInit /\ [][TimerNext]_vars

EnvInit == ScanStart /\ LinkStart /\ PromptStart /\ NickStart /\ NavStart /\ ExtStart

SpecEnv == EnvInit /\ [][EnvNext]_vars

GateInit == ScanStart /\ LinkStart /\ PromptStart /\ NickStart /\ NavStart /\ ExtStart

SpecGate == GateInit /\ [][GateNext]_vars

\* NPC e was spawned and has been removed from the world.
isRemoved(n, e) == e \in DOMAIN n /\ n[e].st = "removed"

\* The retry callback removes NPC e.
SweepRemoves(e) ==
    /\ e \in DOMAIN npcs
    /\ ~isRemoved(npcs, e)
    /\ startRetryLoop
    /\ UNCHANGED Others
    /\ isRemoved(npcs', e)

\* The host runs every interval callback again and again and every timeout
\* callback once it is due; a chunk that is unloaded is loaded again, and the
\* retry callback runs while an NPC it would remove is loaded.
FairSpecPrompt ==
    /\ SpecPrompt
    /\ WF_vars(startRetryLoop /\ UNCHANGED Others)
    /\ \A e \in NpcIds : WF_vars(dialogueTimeout(e, TRUE) /\ UNCHANGED Others)
    /\ \A e \in NpcIds : WF_vars(removalTimeout(e) /\ UNCHANGED Others)
    /\ \A e \in NpcIds : WF_vars(NpcLoad(e) /\ UNCHANGED Others)
    /\ \A e \in NpcIds : SF_vars(SweepRemoves(e))

(***************************************************************************)
(* Properties                                                              *)
(***************************************************************************)

\* The inventory scan generators that have not ended.
LiveScans == Len(jobs)

\* C1: a scan job whose generator throws in a later quantum than the launch
\* leaves the guard resettable: once the generator has ended by throwing and
\* no scan is running, scanInProgress is false again.
C1_GuardResetAfterThrow ==
    (ended = "threw" /\ LiveScans = 0) => ~scanInProgress

\* C2: at most one inventory scan job is in progress at any time, and
\* scanInProgress is true for as long as its generator has not ended.
C2_SingleFlightScan ==
    /\ LiveScans <= 1
    /\ LiveScans = 1 => scanInProgress

\* A scan is suspended in the middle of an inventory while scanInProgress is
\* set, so the periodic trigger fires against a running scan.
C2_Witness ==
    /\ LiveScans = 1
    /\ Head(jobs).pi >= 1
    /\ Head(jobs).slot < NumSlots
    /\ scanInProgress


\* C3: after any sequence of link, unlinkByKey and unlinkByValue the forward
\* and the reverse map are exact inverses of each other: forward[k] = v if
\* and only if reverse[v] = k.
C3_MapsAreInverses ==
    /\ \A k \in DOMAIN activeEntitiesKeyToValue :
          /\ activeEntitiesKeyToValue[k] \in DOMAIN activeEntitiesValueToKey
          /\ activeEntitiesValueToKey[activeEntitiesKeyToValue[k]] = k
    /\ \A v \in DOMAIN activeEntitiesValueToKey :
          /\ activeEntitiesValueToKey[v] \in DOMAIN activeEntitiesKeyToValue
          /\ activeEntitiesKeyToValue[activeEntitiesValueToKey[v]] = v

\* A link has just replaced a pair of its key while other pairs are held.
C3_Witness ==
    /\ lastOp[1] = "link"
    /\ Cardinality(DOMAIN activeEntitiesKeyToValue) = NumPlayers
    /\ Cardinality(DOMAIN activeEntitiesValueToKey) = NumPlayers

\* C4: one run of the orphan sweep (at the head of the retry callback)
\* removes exactly the live prompt NPCs that lookupByValue does not find and
\* leaves every linked one in the world.
C4_SweepRemovesExactlyOrphans ==
    [][startRetryLoop =>
         \A e \in DOMAIN npcs :
            isValid(npcs, e) =>
               ((npcs'[e].st = "removed") <=> ~hasValue(registry, e))]_vars

\* An orphaned NPC has been removed by the sweep (its removal timeout is
\* still pending) while a linked NPC is still in the world.
C4_Witness ==
    \E e1 \in DOMAIN npcs, e2 \in DOMAIN npcs :
       /\ npcs[e1].st = "removed"
       /\ e1 \in removalTimers
       /\ isValid(npcs, e2)
       /\ hasValue(registry, e2)

\* C5: every prompt NPC created for a player is eventually removed from the
\* world.
C5_EveryNpcEventuallyRemoved ==
    \A e \in NpcIds :
       [](e \in DOMAIN npcs => <>isRemoved(npcs, e))

\* The periodic check would open the student form for p.
promptDue(p) ==
    /\ settings.nicknamesEnabled
    /\ p \in DOMAIN playersToPrompt
    /\ p \in online
    /\ distanceAtLeastOne(viewDirection[p], playersToPrompt[p])

\* C6: when the student nickname form resolves with the Busy outcome the
\* actor is put back into the prompt set (with the origin as the stored
\* location, so that the periodic check can open the form again); when it
\* resolves as a user cancellation or a confirmation the prompt set is left
\* as it is.
C6_BusyRearmsPrompt ==
    [][\A p \in NickPlayers :
         /\ (\E t \in Texts, a \in BOOLEAN :
                studentFormResponse(p, "UserBusy", t, a))
            => /\ p \in DOMAIN playersToPrompt'
               /\ playersToPrompt'[p] = Origin
         /\ (\E r \in {"UserClosed", "Submitted"}, t \in Texts,
                a \in BOOLEAN : studentFormResponse(p, r, t, a))
            => playersToPrompt' = playersToPrompt]_vars

\* The Busy outcome of a student form has been handled while the dialog it
\* collided with is still open: the student is in the prompt set again.
C6_Witness ==
    \E p \in NickPlayers :
        /\ p \in online
        /\ p \notin userBusy
        /\ forms[p] = <<"main">>
        /\ p \in DOMAIN playersToPrompt
        /\ playersToPrompt[p] = Origin

\* The index of the occurrence of x in h nearest the end.
nearestFromEnd(h, x) ==
    CHOOSE i \in DOMAIN h : h[i] = x /\ \A j \in DOMAIN h : h[j] = x => j <= i

\* x occurs in h.
occursIn(h, x) == \E i \in DOMAIN h : h[i] = x

\* C7: goBack(ctx, 1) called right after an openSceneWithContext(ctx, id,
\* true) reopens the scene id that was current before that push and leaves
\* the history as it was before it; the back button of NoTeamsScene and the
\* submission of ClassroomLimitationsScene are such calls.
C7_GoBackReopensPrevious ==
    [][(/\ lastNav.op = "push"
        /\ \/ goBack(1)
           \/ NoTeamsSceneBack
           \/ ClassroomLimitationsSceneSubmit)
       => /\ currentScene' = lastNav.current
          /\ history' = lastNav.history]_vars

\* goBack(ctx, 1) from no_teams, reached by pushes, has reopened the scene
\* pushed last.
C7_Witness ==
    /\ lastNav.op = "goBack"
    /\ lastNav.levels = 1
    /\ lastNav.current = "no_teams"
    /\ lastNav.history = <<"main", "environment">>
    /\ currentScene = "environment"
    /\ history = <<"main">>

\* C8: goBackToScene(ctx, x), when x occurs in history, cuts history just
\* before the occurrence of x nearest the end (for the occurrence at 0-based
\* position i the history has length i afterwards) and x is the current
\* scene; the submission of EnvironmentWeatherScene does so for environment.
C8_GoBackToSceneTruncates ==
    [][/\ \A x \in SceneIds :
            (goBackToScene(x) /\ occursIn(history, x))
            => /\ Len(history') = nearestFromEnd(history, x) - 1
               /\ history' = SubSeq(history, 1, Len(history'))
               /\ currentScene' = x
       /\ (EnvironmentWeatherSceneSubmit /\ occursIn(history, "environment"))
            => /\ Len(history') = nearestFromEnd(history, "environment") - 1
               /\ history' = SubSeq(history, 1, Len(history'))
               /\ currentScene' = "environment"]_vars

\* After main -> environment -> environment_weather with pushes,
\* goBackToScene(ctx, main) has left an empty history and main current.
C8_Witness ==
    /\ lastNav.op = "goBackToScene"
    /\ lastNav.scene = "main"
    /\ lastNav.history = <<"main", "environment">>
    /\ lastNav.current = "environment_weather"
    /\ history = <<>>
    /\ currentScene = "main"

\* C9: openSceneWithContext(ctx, id, pushHistory) makes id current; with
\* pushHistory = true it appends exactly the previously current scene id to
\* history, with pushHistory = false it leaves history unchanged. The weather
\* button of EnvironmentScene pushes environment, its always-day button
\* re-shows the scene without growing history.
C9_PushAppendsPreviousScene ==
    [][/\ \A id \in SceneIds :
            /\ openSceneWithContext(id, TRUE)
               => /\ history' = Append(history, currentScene)
                  /\ currentScene' = id
            /\ openSceneWithContext(id, FALSE)
               => /\ history' = history
                  /\ currentScene' = id
       /\ EnvironmentSceneWeather
            => /\ history' = Append(history, "environment")
               /\ currentScene' = "environment_weather"
       /\ EnvironmentSceneAlwaysDay
            => /\ history' = history
               /\ currentScene' = "environment"]_vars

\* main, then environment with push, then environment_weather with push:
\* history is [main, environment] and environment_weather is current.
C9_Witness ==
    /\ lastNav.op = "push"
    /\ lastNav.current = "environment"
    /\ history = <<"main", "environment">>
    /\ currentScene = "environment_weather"

\* C10: an actor has at most one scene form displayed at any time: a scene
\* opened from the response of another replaces it, and a scene requested
\* while the actor is mid-dialog (the student form by the periodic check,
\* a scene by the educator tool) resolves as Busy and leaves the displayed
\* form as it is, without being stacked on it or shown after it.
C10_OneSceneBusyNotQueued ==
    /\ \A p \in NickPlayers : Len(forms[p]) <= 1
    /\ [][\A p \in NickPlayers :
            /\ Len(forms'[p]) <= 1
            /\ (checkPlayerPrompts /\ promptDue(p) /\ forms[p] # <<>>)
               => /\ forms'[p] = forms[p]
                  /\ p \in userBusy'
            /\ (onEducatorToolUse(p, "main") /\ forms[p] # <<>>)
               => forms'[p] = forms[p]
            /\ \A s \in {"none", "environment"} :
                  sceneResponse(p, s)
                  => forms'[p] = IF s = "none" THEN <<>> ELSE <<s>>]_vars

\* The student form was requested while the actor had the main scene open:
\* the request is resolving as Busy and the main scene is still the only
\* form displayed.
C10_Witness ==
    \E p \in NickPlayers :
        /\ p \in userBusy
        /\ p \notin DOMAIN playersToPrompt
        /\ forms[p] = <<"main">>

Min(a, b) == IF a <= b THEN a ELSE b

C13_GoBackRootWhenReached ==
    [][\A l \in 1 .. (MaxHistory + 1) :
          goBack(l)
          => /\ history' = SubSeq(history, 1, Len(history) - Min(l, Len(history)))
             /\ IF l >= Len(history)
                THEN currentScene' = ROOT_SCENE
                ELSE currentScene' = history[Len(history) - l + 1]]_vars

\* C13, amended: goBack(ctx, levels) removes min(levels, history.length)
\* entries from the end of history; when levels is at most the length of
\* history it opens the entry removed last without pushing, and only when
\* levels exceeds the length of history the root scene is opened. The back
\* button of NoTeamsScene does so for one level.
C13_GoBackClampsToRoot ==
    [][/\ \A l \in 1 .. (MaxHistory + 1) :
            goBack(l)
            => /\ history' =
                      SubSeq(history, 1, Len(history) - Min(l, Len(history)))
               /\ IF l > Len(history)
                  THEN currentScene' = ROOT_SCENE
                  ELSE currentScene' = history[Len(history) - l + 1]
       /\ NoTeamsSceneBack
            => /\ history' =
                      SubSeq(history, 1, Len(history) - Min(1, Len(history)))
               /\ IF Len(history) = 0
                  THEN currentScene' = ROOT_SCENE
                  ELSE currentScene' = history[Len(history)]]_vars

\* goBack with more levels than history has entries has emptied the history
\* and opened the root scene.
C13_Witness ==
    /\ lastNav.op = "goBack"
    /\ lastNav.levels > Len(lastNav.history)
    /\ Len(lastNav.history) > 0
    /\ lastNav.current # ROOT_SCENE
    /\ history = <<>>
    /\ currentScene = ROOT_SCENE

\* C14: goBackToScene(ctx, targetId) with a targetId that does not occur in
\* history logs an error and opens the root scene: the call completes and
\* the actor has a scene. The back button of EnvironmentScene, which names
\* main, does so when main is not in history.
C14_MissingTargetOpensRoot ==
    [][/\ \A x \in SceneIds :
            (goBackToScene(x) /\ ~occursIn(history, x))
            => /\ logged'
               /\ currentScene' = ROOT_SCENE
       /\ (EnvironmentSceneBack /\ ~occursIn(history, "main"))
            => /\ logged'
               /\ currentScene' = ROOT_SCENE]_vars

\* goBackToScene named a scene that is not in the (not empty) history: the
\* error is logged and the root scene is current.
C14_Witness ==
    /\ lastNav.op = "goBackToScene"
    /\ lastNav.history # <<>>
    /\ ~occursIn(lastNav.history, lastNav.scene)
    /\ lastNav.scene # ROOT_SCENE
    /\ logged
    /\ currentScene = ROOT_SCENE

\* C15: link(k, v2) on a registry where k is linked to another value v1
\* leaves lookupByValue(v1) undefined, lookupByValue(v2) = k and
\* lookupByKey(k) = v2; link(k2, v) on a registry where v is linked to
\* another key k1 leaves lookupByKey(k1) undefined and lookupByValue(v) = k2.
C15_RelinkEvictsOldPair ==
    [][\A k \in Players, v \in EntityIds :
          Link(k, v) =>
             /\ k \in DOMAIN activeEntitiesKeyToValue'
             /\ activeEntitiesKeyToValue'[k] = v
             /\ v \in DOMAIN activeEntitiesValueToKey'
             /\ activeEntitiesValueToKey'[v] = k
             /\ (k \in DOMAIN activeEntitiesKeyToValue
                  /\ activeEntitiesKeyToValue[k] # v)
                   => activeEntitiesKeyToValue[k] \notin DOMAIN activeEntitiesValueToKey'
             /\ (v \in DOMAIN activeEntitiesValueToKey
                  /\ activeEntitiesValueToKey[v] # k)
                   => activeEntitiesValueToKey[v] \notin DOMAIN activeEntitiesKeyToValue']_vars

\* A link has just moved its key away from another value, and that value
\* was held by another key before: both evictions happened in one call.
C15_Witness ==
    /\ lastOp[1] = "link"
    /\ lastOp[2] \in DOMAIN lastOp[4].fwd
    /\ lastOp[4].fwd[lastOp[2]] # lastOp[3]
    /\ lastOp[3] \in DOMAIN lastOp[4].rev
    /\ lastOp[4].rev[lastOp[3]] # lastOp[2]
    /\ lastOp[4].fwd[lastOp[2]] \notin DOMAIN activeEntitiesValueToKey
    /\ activeEntitiesKeyToValue = (lastOp[2] :> lastOp[3])

\* C16: unlinkByKey(key) and unlinkByValue(value) remove the whole pair
\* from both directions; a call for a key or value that is not linked (so
\* also a second call) leaves the registry unchanged.
C16_UnlinkRemovesPairIdempotent ==
    [][/\ \A k \in Players :
             UnlinkByKey(k) =>
                /\ k \notin DOMAIN activeEntitiesKeyToValue'
                /\ \A v \in DOMAIN activeEntitiesValueToKey' :
                       activeEntitiesValueToKey'[v] # k
                /\ k \notin DOMAIN activeEntitiesKeyToValue => registry' = registry
                /\ deleteActiveEntityByKey(registry', k) = registry'
       /\ \A v \in EntityIds :
             UnlinkByValue(v) =>
                /\ v \notin DOMAIN activeEntitiesValueToKey'
                /\ \A k \in DOMAIN activeEntitiesKeyToValue' :
                       activeEntitiesKeyToValue'[k] # v
                /\ v \notin DOMAIN activeEntitiesValueToKey => registry' = registry
                /\ deleteActiveEntityByValue(registry', v) = registry']_vars

\* unlinkByKey has just removed a pair while another pair stays linked.
C16_Witness ==
    /\ lastOp[1] = "unlinkByKey"
    /\ lastOp[2] \in DOMAIN lastOp[4].fwd
    /\ lastOp[2] \notin DOMAIN activeEntitiesKeyToValue
    /\ lastOp[4].fwd[lastOp[2]] \notin DOMAIN activeEntitiesValueToKey
    /\ activeEntitiesKeyToValue # EmptyMap

\* The NPCs of player p that a step has added to the world.
spawnedFor(p) ==
    {e \in DOMAIN npcs' \ DOMAIN npcs : npcs'[e].owner = p}

slotsEmptied == {ps \in Players \X Slots : ps[2] \in inv[ps[1]] \ inv'[ps[1]]}

\* C18: between two consecutive yields the inventory scan generator
\* inspects at most one inventory slot (the slot after the one it was
\* suspended at, or the first slot of a later player) and the entity scan
\* generator checks at most one entity.
C18_OneUnitBetweenYields ==
    [][/\ resumeScan =>
             /\ Cardinality(slotsEmptied) <= 1
             /\ (jobs' # <<>> /\ Head(jobs').kind = "inventory"
                  /\ Head(jobs').pi > 0 /\ Len(jobs') = Len(jobs)) =>
                   LET g == Head(jobs)
                       h == Head(jobs')
                   IN  /\ \/ h.pi = g.pi /\ h.slot = g.slot + 1
                          \/ h.pi > g.pi /\ h.slot = 1
                       /\ \A ps \in slotsEmptied :
                             ps = <<h.players[h.pi], h.slot>>
       /\ resumeEntityScan =>
             /\ checkedSinceYield' <= 1
             /\ Cardinality(entities \ entities') <= 1]_vars

\* The entity scan, with two restricted entities in one dimension, has just
\* checked and removed the first and is suspended with the second in the
\* world; an inventory scan has run to its end before.
C18_Witness ==
    /\ ended = "returned"
    /\ jobs # <<>>
    /\ Head(jobs).kind = "entity"
    /\ Head(jobs).pc = "entity"
    /\ Len(Head(jobs).ents) >= 2
    /\ Head(jobs).ei = 1
    /\ checkedSinceYield = 1
    /\ entityRestricted
    /\ Head(jobs).ents[1] \notin entities
    /\ Head(jobs).ents[2] \in entities

\* C19: when the callback of a periodic task throws in a tick, the task
\* stays registered with its period and its countdown starts anew, so it
\* fires again one period later, and every other task's countdown moves as
\* in a tick without an exception.
C19_ThrowingTaskKeepsFiring ==
    [][\A T \in SUBSET DOMAIN runs :
          HostTick(T) =>
             /\ DOMAIN runs' = DOMAIN runs
             /\ \A r \in T :
                   /\ runs'[r].period = runs[r].period
                   /\ runs'[r].left = runs[r].period
             /\ \A r \in DOMAIN runs \ T :
                   /\ runs'[r].cb = runs[r].cb
                   /\ runs'[r].period = runs[r].period
                   /\ runs'[r].left = IF runs[r].left = 1
                                      THEN runs[r].period
                                      ELSE runs[r].left - 1]_vars

\* The retry callback threw in the last tick while the timer's run was not
\* due; both runs are registered and the retry run is a full period away.
C19_Witness ==
    /\ schedOp = "tick"
    /\ \E r \in lastTick.threw :
          /\ r \in DOMAIN runs
          /\ runs[r].cb = "retry"
          /\ runs[r].left = runs[r].period
    /\ \E r \in DOMAIN runs \ lastTick.fired :
          /\ runs[r].cb = "tick"
          /\ runs[r].left < runs[r].period

\* C20: stop() clears the timer's run and the handle; once it has, no tick
\* of the host runs the timer's callback; stop() with no handle held (a
\* second call, or a call before initialize()) changes nothing.
C20_StopFinalAndIdempotent ==
    [][/\ TimerStop =>
             /\ taskId' = 0
             /\ \A r \in DOMAIN runs' : runs'[r].cb # "tick"
             /\ taskId = 0 => runs' = runs
             /\ stop(Timer(runs', taskId')) = Timer(runs', taskId')
       /\ timerStopped =>
             /\ \A r \in DOMAIN runs' : runs'[r].cb # "tick"
             /\ \A T \in SUBSET DOMAIN runs :
                   HostTick(T) => \A r \in lastTick'.fired : runs[r].cb # "tick"]_vars

\* stop() has been called again after it cleared the timer's run, which had
\* fired in the tick before; the retry loop is still registered.
C20_Witness ==
    /\ schedOp = "stopAgain"
    /\ timerInitialized
    /\ timerStopped
    /\ taskId = 0
    /\ \E r \in lastTick.fired : r \notin DOMAIN runs
    /\ \E r \in DOMAIN runs : runs[r].cb = "retry"
    /\ \A r \in DOMAIN runs : runs[r].cb # "tick"

\* C21: a started, unpaused timer whose remaining time, as the tick computes
\* it, has reached 0 is cleared by the periodic tick, whether or not its
\* entity is found.
C21_ExpiredTimerClearedByTick ==
    [][(/\ PeriodicTick
        /\ timerStatus(timer) = "running"
        /\ getRemainingTime(handleInactivity(timer, currentTick, now), now) = 0)
       => timer' = NoTimer]_vars

\* C22: a running timer that the periodic tick clears at expiry has broadcast
\* the times_up message in an earlier tick.
C22_TimesUpBeforeCleared ==
    [][(/\ PeriodicTick
        /\ timerStatus(timer) = "running"
        /\ timer' = NoTimer)
       => timesUpSent]_vars

\* C23: after clearTimer() nothing is stored and the loaded entity the stored
\* timer referred to is removed, whatever its dimension.
C23_ClearRemovesEntity ==
    [][(/\ ClearTimer
        /\ timer.exists
        /\ isValid(timerEntities, timer.entityId))
       => /\ timer' = NoTimer
          /\ timerEntities'[timer.entityId].st = "removed"]_vars

\* C24: pausing a running timer keeps its remaining time, every step that
\* leaves the timer paused keeps it (ticks, waiting, the game closed and
\* opened again), and resuming the paused timer keeps it and sets the timer
\* running again.
C24_PauseResumeKeepsRemaining ==
    [][/\ (PauseTimer /\ timerStatus(timer) = "running")
          => /\ timerStatus(timer') = "paused"
             /\ getRemainingTime(timer', now') = getRemainingTime(timer, now)
       /\ (timerStatus(timer) = "paused" /\ timerStatus(timer') = "paused")
          => getRemainingTime(timer', now') = getRemainingTime(timer, now)
       /\ (ResumeTimer /\ timerStatus(timer) = "paused")
          => /\ timerStatus(timer') = "running"
             /\ getRemainingTime(timer', now') = getRemainingTime(timer, now)
      ]_vars

\* A timer resumed just now after a pause that spanned a periodic tick, with
\* time left to run.
C24_Witness ==
    /\ timerStatus(timer) = "running"
    /\ ~reopened
    /\ timer.pauseDuration >= TICK_INTERVAL_MS
    /\ timer.lastRealTime = now
    /\ phase = 2
    /\ getRemainingTime(timer, now) > 0

C27_RemainingWithinDuration ==
    timer.exists =>
        /\ 0 <= getRemainingTime(timer, now)
        /\ getRemainingTime(timer, now) <= timer.duration * 1000
        /\ timer.started =>
              /\ 0 <= timer.pauseDuration
              /\ timer.pauseDuration
                 <= (IF timer.isPaused THEN timer.pausedAt ELSE now)
                    - timer.startedAt

\* A running timer that has accumulated pauseDuration and has run for part
\* of its time.
C27_Witness ==
    /\ timerStatus(timer) = "running"
    /\ timer.pauseDuration > 0
    /\ getRemainingTime(timer, now) > 0
    /\ getRemainingTime(timer, now) < timer.duration * 1000

\* C28: while a transition target is stored, a tick moves the world time
\* forward (modulo DAY_TICKS) by the transition speed, or by the shorter
\* distance left when it lands on the target, never past the target; the
\* tick that clears the target leaves the world time equal to it, and that
\* happens within ceil(DAY_TICKS / speed) ticks from setDayTime.
C28_TransitionForwardAndBounded ==
    [][(\E t \in DayTimes : EnvironmentTick(t))
       /\ hasTimeTransitionTarget(dayTimeTarget)
       => LET s == getTimeTransitionSpeed(timeTransitionSpeed)
              moved == (worldTime' - worldTime + DAY_TICKS) % DAY_TICKS
          IN  /\ moved <= forwardDistance(environment)
              /\ \/ moved = s /\ dayTimeTarget' = dayTimeTarget
                 \/ /\ moved <= s
                    /\ worldTime' = getDayTimeTarget(dayTimeTarget)
                    /\ dayTimeTarget' = Unset
              /\ transitionTicks' <= transitionBound(s)
              /\ transitionTicks' = transitionBound(s) => dayTimeTarget' = Unset
      ]_vars

\* A transition at the default speed has landed on its target in the last of
\* the ticks allowed, after wrapping or covering all but one tick of the day.
C28_Witness ==
    /\ dayTimeTarget = Unset
    /\ timeTransitionSpeed = Unset
    /\ transitionTicks = transitionBound(DEFAULT_TRANSITION_SPEED)
    /\ worldTime \in DayTimes

\* C29: a player enters the pending prompt queue only at a moment when the
\* world was initialised at least SESSION_WARMUP_MINUTES ago, the player has
\* been a candidate for at least MIN_PROMPT_DELAY_MINUTES, the last movement
\* detected is at least IDLE_WINDOW_SECONDS old, no feedback of the player is
\* recorded and the prompt was not opened for the player in this session.
C29_QueuedOnlyThroughAllGates ==
    [][\A p \in PromptPlayers :
          (p \notin pendingPromptPlayers /\ p \in pendingPromptPlayers')
          => /\ date - worldInitDate >= SESSION_WARMUP_MINUTES * 60
             /\ promptCandidates'[p].exists
             /\ date - promptCandidates'[p].scheduledAt
                >= MIN_PROMPT_DELAY_MINUTES * 60
             /\ date - promptCandidates'[p].lastActiveAt >= IDLE_WINDOW_SECONDS
             /\ p \notin feedbackProvided
             /\ p \notin promptOpenedPlayers
             /\ p \in online
      ]_vars

\* The monitor has just queued a player who became a candidate after the
\* start and whose last movement is exactly one idle window old.
C29_Witness ==
    /\ monitorRan
    /\ \E p \in pendingPromptPlayers :
          /\ promptCandidates[p].scheduledAt > worldInitDate
          /\ promptCandidates[p].lastActiveAt > promptCandidates[p].scheduledAt
          /\ date - promptCandidates[p].lastActiveAt = IDLE_WINDOW_SECONDS

\* C30: no player is both pending and recorded as having had the prompt
\* opened, and a player for whom the prompt was opened stays recorded and is
\* not pending after any later step.
C30_OpenedNeverQueuedAgain ==
    /\ [](pendingPromptPlayers \cap promptOpenedPlayers = {})
    /\ [][\A p \in promptOpenedPlayers :
             /\ p \in promptOpenedPlayers'
             /\ p \notin pendingPromptPlayers']_vars

\* The monitor has just run for an online candidate for whom the prompt was
\* opened, with every gate passed and no feedback recorded, and has not
\* queued the player.
C30_Witness ==
    /\ monitorRan
    /\ \E p \in promptOpenedPlayers \cap online :
          /\ promptCandidates[p].exists
          /\ isPromptWindowOpen(promptCandidates[p], date)
          /\ p \notin feedbackProvided
          /\ p \notin pendingPromptPlayers

(***************************************************************************)
(* Feedback prompt: the retry loop over several pending players            *)
(***************************************************************************)

\* The for loop of the retry callback (startRetryLoop) over the pending
\* players ps, with the host's answer to spawnEntity as an input: for the
\* players in fails player.dimension.spawnEntity throws (the location
\* NPC_SPAWN_HEIGHT above the player is outside the dimension's height
\* range or in an unloaded chunk). tryPromptPlayer does not catch it and
\* neither does the callback, so the loop ends at that player.
RECURSIVE retryLoop(_, _, _, _)
retryLoop(w, ps, on, fails) ==
    IF ps = <<>> THEN w
    ELSE LET p == Head(ps)
         IN  IF p \in on /\ mustSpawn(w, p) /\ (p \in fails \/ ~canSpawn(w))
             THEN w
             ELSE retryLoop(tryPromptPlayer(w, p, on), Tail(ps), on, fails)

\* The players the loop of the retry callback calls tryPromptPlayer for: the
\* pending players up to and including the first one spawnEntity throws for.
RECURSIVE triedBy(_, _, _, _)
triedBy(w, ps, on, fails) ==
    IF ps = <<>> THEN {}
    ELSE LET p == Head(ps)
         IN  IF p \in on /\ mustSpawn(w, p) /\ (p \in fails \/ ~canSpawn(w))
             THEN {p}
             ELSE {p} \cup triedBy(tryPromptPlayer(w, p, on), Tail(ps), on, fails)

\* The system.runInterval callback of startRetryLoop, spawnEntity throwing
\* for the players in fails.
RetryFiring(fails) ==
    /\ dialogueTimers = {} \/ RETRY_LOOP_BASE <= DIALOGUE_OPEN_DELAY
    /\ fails \subseteq online
    /\ LET swept == checkAndRemoveInactiveEntities(world)
       IN  /\ Becomes(retryLoop(swept, getPlayers(pendingPromptPlayers),
                                 online, fails))
           /\ tried' = triedBy(swept, getPlayers(pendingPromptPlayers), online,
                               fails)
    /\ retryFirings' = 1 - retryFirings
    /\ lastOp' = lastOp
    /\ UNCHANGED <<online, promptOpenedPlayers, shown>>

RetryOthers == <<scanInProgress, jobs, ended, inv, nickVars, navVars, entryVars,
                 chunkVars, schedVars, timerVars, envVars, gateVars>>

RetryNext ==
    \/ \E f \in SUBSET Players : RetryFiring(f) /\ UNCHANGED RetryOthers
    \/ \E q \in SUBSET online : startActivityMonitor(q) /\ UNCHANGED Others
    \/ \E e \in NpcIds, o \in BOOLEAN :
          dialogueTimeout(e, o) /\ UNCHANGED Others
    \/ \E e \in NpcIds : removalTimeout(e) /\ UNCHANGED Others
    \/ \E p \in Players : handlePromptOpened(p) /\ UNCHANGED Others
    \/ \E p \in Players : handleFeedbackRefused(p) /\ UNCHANGED Others
    \/ \E p \in Players : PlayerLeavePrompt(p) /\ UNCHANGED Others
    \/ \E p \in Players : PlayerJoinPrompt(p) /\ UNCHANGED Others

RetryInit == ScanStart /\ LinkStart /\ PromptStart /\ NickStart /\ NavStart /\ ExtStart

SpecRetry == RetryInit /\ [][RetryNext]_vars

\* A step is a firing of the retry callback.
isRetryFiring == \E f \in SUBSET Players : RetryFiring(f)

\* C31: a pending player leaves pendingPromptPlayers only by a prompt-opened
\* event, by a refusal event, or at a firing of the retry loop that finds
\* them offline; every firing of the retry loop calls tryPromptPlayer for
\* every pending player, keeps those who are online and removes those who
\* are offline; the dialogue timeout, whether the dialogue opens or not,
\* leaves pendingPromptPlayers alone.
C31_PendingAttemptedEveryFiring ==
    [][\A p \in Players :
          /\ (p \in pendingPromptPlayers /\ p \notin pendingPromptPlayers') =>
                \/ handlePromptOpened(p)
                \/ handleFeedbackRefused(p)
                \/ isRetryFiring /\ p \notin online
          /\ (isRetryFiring /\ p \in pendingPromptPlayers) => p \in tried'
          /\ (isRetryFiring /\ p \in pendingPromptPlayers \cap online) =>
                p \in pendingPromptPlayers'
          /\ (isRetryFiring /\ p \in pendingPromptPlayers \ online) =>
                p \notin pendingPromptPlayers'
          /\ (\E e \in NpcIds, o \in BOOLEAN : dialogueTimeout(e, o)) =>
                pendingPromptPlayers' = pendingPromptPlayers]_vars

(***************************************************************************)
(* Classroom limitations: recurrence of the inventory scans                *)
(***************************************************************************)

ScanOthers == <<linkVars, promptVars, nickVars, navVars, extVars>>

\* A firing of the periodic callback whose launch hands a generator to
\* system.runJob.
ScanLaunched ==
    /\ scheduleInventoryScans
    /\ Len(jobs') > Len(jobs)
    /\ UNCHANGED ScanOthers

\* The host fires the interval callback again and again, system.runJob
\* accepts the generator of a launch that keeps being attempted, and the job
\* system resumes a queued generator until it ends.
FairSpecScan ==
    /\ SpecScan
    /\ WF_vars(ScanLaunched)
    /\ WF_vars(resumeScan /\ UNCHANGED ScanOthers)

\* C32: inventory scans keep recurring and are effective: a restricted item
\* in a slot of a connected player who is not a teacher is eventually
\* removed from that slot (or the player disconnects), and every scan that
\* was started eventually ends by returning, which releases the guard for
\* the next one.
C32_RestrictedItemEventuallyRemoved ==
    /\ \A p \in Players \ Teachers : \A s \in Slots :
          (p \in online /\ s \in inv[p]) ~> (p \notin online \/ s \notin inv[p])
    /\ scanInProgress ~> ~scanInProgress

\* The entity scan generators that have not ended.
LiveEntityScans == Cardinality({j \in DOMAIN jobs : jobs[j].kind = "entity"})

\* C33: at most one full-world entity scan job is in flight at any time,
\* also when the settings are saved again while the entity scan launched by
\* an earlier save has not ended.
C33_SingleFlightEntityScan == LiveEntityScans <= 1

====
